---- MODULE Spec2Model ----
(***************************************************************************)
(* A model of the PagerMaid plugins: the forwarding relay (shift), the two *)
(* downloaders (gdl, ytdl), backup and restore (bf, hf) and the member     *)
(* cleanup (clean_member).  Each plugin has its own specification over the *)
(* variables it owns; the other plugins' variables stay as initialised.    *)
(***************************************************************************)
EXTENDS Integers, Sequences, FiniteSets, TLC

VARIABLES
    \* ---- shift: the forwarding relay -------------------------------------
    rules,        \* sqlite keys "shift.<source_id>": source_id -> rule record
    stats,        \* sqlite keys "shift.stats.<source_id>.<today>"
    relay,        \* the last listener call: the type tag it computed and the
                  \* forward_messages calls it issued
    reply,        \* what the last shift command answered (message.edit)
    shiftOps,     \* number of shift commands and messages handled so far
    \* ---- gdl / ytdl: the downloaders -------------------------------------
    busy,         \* gallery_dl_is_downloading / ytdl_is_downloading
    pc,           \* position of each command invocation in its handler
    workdir,      \* the invocations whose working directory exists
    downloads,    \* the invocations that started a download
    ffmpeg,       \* shutil.which("ffmpeg"): whether ffmpeg is installed
    \* ---- bf / hf: backup and restore -------------------------------------
    live,         \* files under the program directory: path -> content
    uploadSessions, \* data/bf_config.json: upload_sessions
    hfConfirm,    \* whether data/hf_confirm.json exists
    staged,       \* data/_hf_selected_backup.tar.gz, when present
    tmpFiles,     \* the restore's other temporary paths that exist
    archives,     \* the archives the last command produced: [kind, members]
    lastExtract,  \* the last un_tar_gz call: archive, result, files written
    hfReply,      \* what the last hf command answered
    bfOps,        \* number of bf / hf commands handled so far
    \* ---- clean_member ----------------------------------------------------
    members,      \* participants of the chat
    admins,       \* the participants that are admin or creator
    cache,        \* cache_<chat>_<mode>_<day>.json: mode -> [users, expire_time]
    restricted,   \* edit_permissions(view_messages=False) calls issued so
                  \* far: the user, and whether the user was an admin then
    now,          \* datetime.now(), in hours
    cmLast,       \* what the last clean_member command did
    cmOps,        \* number of clean_member commands handled so far
    \* ---- aban: moderation ------------------------------------------------
    abAdmins,     \* the <<chat, user>> pairs where the user is an admin
    abRights,     \* the chats where the account has the right to ban
    requests,     \* the EditBannedRequests the last command issued
    abReply,      \* what the last moderation command answered, with the
                  \* arguments it was given
    abOps,        \* number of moderation commands handled so far
    \* ---- functions checked on their own ----------------------------------
    fnInput,      \* the arguments of the call
    fnOutput,     \* what the call returned
    \* ---- bf: the backup destinations -------------------------------------
    target_chat_ids, \* data/bf_config.json: target_chat_ids
    tgLast,       \* the last `bf set` / `bf del`: its words and the list before
    tgOps,        \* number of `bf set` / `bf del` commands handled so far
    \* ---- gemini ----------------------------------------------------------
    api_key,      \* db "custom.gemini.api_key": whether a key is set
    history,      \* db "custom.gemini.chat_history": the stored turns
    context_enabled,   \* db "custom.gemini.context_enabled"
    telegraph_enabled, \* db "custom.gemini.telegraph_enabled"
    telegraph_limit,   \* db "custom.gemini.telegraph_limit"
    telegraph_posts,   \* db "custom.gemini.telegraph_posts": pages created
    calls,        \* the provider calls in flight, per command invocation
    gmLast,       \* what the last gemini handler that finished did
    gmOps,        \* number of gemini commands handled so far
    \* ---- bf: the scheduled backup ----------------------------------------
    cron_expr,    \* data/bf_config.json: cron_expr, as its fields
    jobs,         \* number of scheduler jobs with the id "bf_cron_task"
    crLast,       \* the last `bf cron` command or hook run
    crOps,        \* number of `bf cron` commands and hook runs so far
    \* ---- aban: the managed-groups cache ----------------------------------
    managed,      \* the @cache entry of get_managed_groups: value and expiry
    rfNow,        \* the time, in hours
    rfLast,       \* the last refresh / preload / cache command
    rfOps,        \* number of such commands handled so far
    \* ---- aban: _resolve_user_across_groups_by_id -------------------------
    probes,       \* the number of probe tasks at each position
    found_user,   \* found_user['val']: the id of the user found, or NoUid
    done_event,   \* whether done_event is set
    hits,         \* number of lookups that returned the requested user
    resolver,     \* position of the call itself
    resolved      \* what the call returned

shiftVars == <<rules, stats, relay, reply, shiftOps>>
dlVars    == <<busy, pc, workdir, downloads, ffmpeg>>
bfVars    == <<live, uploadSessions, hfConfirm, staged, tmpFiles, archives, lastExtract,
               hfReply, bfOps>>
cmVars    == <<members, admins, cache, restricted, now, cmLast, cmOps>>
abVars    == <<abAdmins, abRights, requests, abReply, abOps>>
fnVars    == <<fnInput, fnOutput>>
tgVars    == <<target_chat_ids, tgLast, tgOps>>
gmVars    == <<api_key, history, context_enabled, telegraph_enabled,
               telegraph_limit, telegraph_posts, calls, gmLast, gmOps>>
crVars    == <<cron_expr, jobs, crLast, crOps>>
rfVars    == <<managed, rfNow, rfLast, rfOps>>
pbVars    == <<probes, found_user, done_event, hits, resolver, resolved>>
moreVars  == <<crVars, rfVars, pbVars>>
restVars  == <<fnVars, tgVars, gmVars, moreVars>>
vars      == <<shiftVars, dlVars, bfVars, cmVars, abVars, restVars>>

NoRelay == [message_type |-> "", hops |-> <<>>]
None == [kind |-> "none"]

(***************************************************************************)
(* shift: ids, options, keywords, messages                                 *)
(***************************************************************************)

\* Groups a rule can start from (already in the signed convention) and a
\* user, who can only be a target.
Chats == {-50, -51, -52}
Users == {7}
Peers == Chats \cup Users

\* Bound on the number of shift commands and messages in one behaviour.
MaxShiftOps == 3

\* range(20) in is_circular_forward
MaxHops == 20
\* the `_depth > 5` guard of shift_forward_message
MaxDepth == 5

\* MaxHops + 1 further groups, for rule chains longer than the window of
\* is_circular_forward: chain chat i has the id -(100 + i).
ChainChat(i) == 0 - (100 + i)
ChainChats == {ChainChat(i) : i \in 1..(MaxHops + 1)}

AVAILABLE_OPTIONS == {"silent", "text", "all", "photo"}
OptionChoices == {{}, {"photo"}, {"all", "silent"}}

\* Texts and keywords are sequences of characters; "A" and "B" are the upper
\* case of "a" and "b".
Keywords == {<<"A", "b">>}
Texts == {<<>>, <<"x", "a", "B">>, <<"c">>}

lower_char(c) == IF c = "A" THEN "a" ELSE IF c = "B" THEN "b" ELSE c
lower(s) == [i \in 1..Len(s) |-> lower_char(s[i])]

\* `needle in haystack` on strings
contains(haystack, needle) ==
    \E i \in 0..(Len(haystack) - Len(needle)) :
        \A j \in 1..Len(needle) : haystack[i + j] = needle[j]

HasRule(id) == id \in DOMAIN rules

\* str order of the keys "shift.-50" < "shift.-51" < "shift.-52": for ids of
\* equal width and sign the digits decide.
KeyLess(a, b) == (0 - a) < (0 - b)

RECURSIVE SortedSeq(_)
SortedSeq(S) ==
    IF S = {} THEN <<>>
    ELSE LET m == CHOOSE x \in S : \A y \in S \ {x} : KeyLess(x, y)
         IN <<m>> \o SortedSeq(S \ {m})

\* sorted([k for k in sqlite if k.startswith("shift.") and k.count(".") == 1])
all_shifts == SortedSeq(DOMAIN rules)

(***************************************************************************)
(* is_circular_forward                                                     *)
(***************************************************************************)
RECURSIVE circular_walk(_, _, _)
circular_walk(visited, current_id, n) ==
    IF n = 0 THEN FALSE
    ELSE IF current_id \in visited THEN TRUE
    ELSE IF ~HasRule(current_id) THEN FALSE
    ELSE LET next_id == rules[current_id].target_id
         IN IF next_id = -1 THEN FALSE
            ELSE circular_walk(visited \cup {current_id}, next_id, n - 1)

is_circular_forward_direct(source_id, target_id) ==
    IF source_id = target_id THEN TRUE
    ELSE circular_walk({source_id}, target_id, 1)

is_circular_forward(source_id, target_id) ==
    IF source_id = target_id THEN TRUE
    ELSE circular_walk({source_id}, target_id, MaxHops)

(***************************************************************************)
(* shift set                                                               *)
(***************************************************************************)
\* check_source_available: a group or channel that allows forwarding
check_source_available(source, noforwards) ==
    source \in Chats \cup ChainChats /\ ~noforwards

shift_func_set(source, target, options, noforwards) ==
    /\ shiftOps < MaxShiftOps
    /\ shiftOps' = shiftOps + 1
    /\ IF ~check_source_available(source, noforwards)
       THEN /\ reply' = [kind |-> "bad_source"]
            /\ UNCHANGED rules
       ELSE IF is_circular_forward(source, target)
       THEN /\ reply' = [kind |-> "circular"]
            /\ UNCHANGED rules
       ELSE /\ reply' = [kind |-> "set"]
            /\ rules' = [k \in DOMAIN rules \cup {source} |->
                           IF k = source
                           THEN [target_id |-> target,
                                 options |-> options \cap AVAILABLE_OPTIONS,
                                 paused |-> FALSE,
                                 filters |-> {}]
                           ELSE rules[k]]
    /\ relay' = NoRelay
    /\ UNCHANGED stats
    /\ UNCHANGED <<dlVars, bfVars, cmVars, abVars, restVars>>

(***************************************************************************)
(* parse_indices, shift del, pause / resume, filter                        *)
(***************************************************************************)
\* int(): the tokens that are decimal numbers, and their values
int_of == [t \in {"0", "1", "2"} |-> IF t = "0" THEN 0 ELSE IF t = "1" THEN 1 ELSE 2]
IndexTokens == {"0", "1", "2", "x"}
MaxIndices == 2
IndexLists == UNION {[1..n -> IndexTokens] : n \in 1..MaxIndices}

\* indices: the 0-based positions, in the order given, repeats kept;
\* invalid: the tokens that are not a position of the list
RECURSIVE parse_indices(_, _)
parse_indices(toks, total) ==
    IF toks = <<>> THEN [indices |-> <<>>, invalid |-> <<>>]
    ELSE LET i == Head(toks)
             rest == parse_indices(Tail(toks), total)
         IN IF i \in DOMAIN int_of /\ 0 <= int_of[i] - 1 /\ int_of[i] - 1 < total
            THEN [indices |-> <<int_of[i] - 1>> \o rest.indices,
                  invalid |-> rest.invalid]
            ELSE [indices |-> rest.indices, invalid |-> <<i>> \o rest.invalid]

Range(s) == {s[i] : i \in DOMAIN s}
RemoveAt(s, i) == [j \in 1..(Len(s) - 1) |-> IF j < i THEN s[j] ELSE s[j + 1]]

\* sorted(indices, reverse=True)
RECURSIVE sorted_reverse(_)
sorted_reverse(s) ==
    IF s = <<>> THEN <<>>
    ELSE LET i == CHOOSE k \in DOMAIN s : \A j \in DOMAIN s : s[j] <= s[k]
         IN <<s[i]>> \o sorted_reverse(RemoveAt(s, i))

\* the loop of shift_func_del: `key = all_shifts.pop(index); del sqlite[key]`
\* over a list that shrinks; pop raises IndexError once index is past the end.
RECURSIVE del_loop(_, _, _)
del_loop(list, idxs, deleted) ==
    IF idxs = <<>> THEN [deleted |-> deleted, raised |-> FALSE]
    ELSE IF Head(idxs) + 1 > Len(list) THEN [deleted |-> deleted, raised |-> TRUE]
    ELSE del_loop(RemoveAt(list, Head(idxs) + 1), Tail(idxs),
                  deleted \cup {list[Head(idxs) + 1]})

shift_func_del(toks) ==
    /\ shiftOps < MaxShiftOps
    /\ shiftOps' = shiftOps + 1
    /\ LET parsed == parse_indices(toks, Len(all_shifts))
           res == del_loop(all_shifts, sorted_reverse(parsed.indices), {})
       IN /\ rules' = [k \in DOMAIN rules \ res.deleted |-> rules[k]]
          /\ reply' = IF res.raised THEN [kind |-> "raised"]
                       ELSE [kind |-> "del", invalid |-> parsed.invalid]
    /\ relay' = NoRelay
    /\ UNCHANGED stats
    /\ UNCHANGED <<dlVars, bfVars, cmVars, abVars, restVars>>

toggle_pause_resume(toks, pause) ==
    /\ shiftOps < MaxShiftOps
    /\ shiftOps' = shiftOps + 1
    /\ LET parsed == parse_indices(toks, Len(all_shifts))
           hit == {all_shifts[i + 1] : i \in Range(parsed.indices)}
       IN rules' = [k \in DOMAIN rules |->
                      IF k \in hit THEN [rules[k] EXCEPT !.paused = pause]
                      ELSE rules[k]]
    /\ reply' = [kind |-> "paused"]
    /\ relay' = NoRelay
    /\ UNCHANGED stats
    /\ UNCHANGED <<dlVars, bfVars, cmVars, abVars, restVars>>

FilterActions == {"add", "del", "list"}

\* `shift filter <indices> <action> <keywords...>`: with fewer than four
\* parameters (no keyword) the command is refused, whatever the action; with
\* no valid index it is refused as well.  `list` answers with the keywords of
\* the rule at the first index and returns; add and del go through every
\* index.
shift_func_filter(toks, action, keywords) ==
    /\ shiftOps < MaxShiftOps
    /\ shiftOps' = shiftOps + 1
    /\ LET parsed == parse_indices(toks, Len(all_shifts))
           hit == {all_shifts[i + 1] : i \in Range(parsed.indices)}
       IN IF keywords = {}
          THEN /\ reply' = [kind |-> "too_few"]
               /\ UNCHANGED rules
          ELSE IF parsed.indices = <<>>
          THEN /\ reply' = [kind |-> "bad_index"]
               /\ UNCHANGED rules
          ELSE IF action = "list"
          THEN /\ reply' = [kind |-> "filter_list",
                            filters |-> rules[all_shifts[parsed.indices[1] + 1]].filters]
               /\ UNCHANGED rules
          ELSE /\ reply' = [kind |-> "filter"]
               /\ rules' = [k \in DOMAIN rules |->
                              IF k \in hit /\ action = "add"
                              THEN [rules[k] EXCEPT !.filters = @ \cup keywords]
                              ELSE IF k \in hit /\ action = "del"
                              THEN [rules[k] EXCEPT !.filters = @ \ keywords]
                              ELSE rules[k]]
    /\ relay' = NoRelay
    /\ UNCHANGED stats
    /\ UNCHANGED <<dlVars, bfVars, cmVars, abVars, restVars>>

(***************************************************************************)
(* The listener: shift_channel_message and shift_forward_message           *)
(***************************************************************************)
AttrChoices == {{}, {"photo"}}
Messages == [chat : Peers, text : Texts, attrs : AttrChoices,
             noforwards : BOOLEAN]

\* What one forward_messages call does: every hop before failAt succeeds and
\* the hop at failAt fails in the given way (failAt = -1: none fails).
FailKinds == {"flood_ok", "flood_fail", "blocked", "error"}
ForwardOutcomes ==
    {[failAt |-> -1, kind |-> "ok"]} \cup
    [failAt : 0..(Cardinality(Chats) - 1), kind : FailKinds]

\* get_media_type returns the first option, in the iteration order of the set
\* AVAILABLE_OPTIONS, that is a truthy attribute of the message; that order is
\* not fixed by the language, so any truthy option can be the result.
get_media_type(msg) ==
    LET truthy == (msg.attrs \cup (IF msg.text # <<>> THEN {"text"} ELSE {}))
                    \cap AVAILABLE_OPTIONS
    IN IF truthy = {} THEN {"text"} ELSE truthy

is_message_filtered_exact(text, source_id) ==
    IF ~HasRule(source_id) THEN FALSE
    ELSE LET keywords == rules[source_id].filters
         IN IF keywords = {} \/ text = <<>> THEN FALSE
            ELSE \E keyword \in keywords : contains(text, keyword)

is_message_filtered(text, source_id) ==
    IF ~HasRule(source_id) THEN FALSE
    ELSE LET keywords == rules[source_id].filters
         IN IF keywords = {} \/ text = <<>> THEN FALSE
            ELSE \E keyword \in keywords : contains(lower(text), lower(keyword))

\* The forwards one call of shift_forward_message issues, in order; answer is
\* what the platform answered to the hop's first forward_messages call, tries
\* the number of forward_messages calls for the hop, ok whether the last one
\* succeeded.  Only a hop that succeeds at its first try looks for a rule of
\* the chat it forwarded to.
Hop(from_chat_id, to_chat_id, depth, answer, tries, ok) ==
    [from |-> from_chat_id, to |-> to_chat_id, depth |-> depth,
     answer |-> answer, tries |-> tries, ok |-> ok]

RECURSIVE shift_forward_message_deeper(_, _, _, _)
shift_forward_message_deeper(from_chat_id, to_chat_id, depth, outcome) ==
    IF depth > MaxDepth + 1 THEN <<>>
    ELSE IF outcome.failAt = depth
    THEN <<Hop(from_chat_id, to_chat_id, depth, outcome.kind,
               IF outcome.kind \in {"flood_ok", "flood_fail"} THEN 2 ELSE 1,
               outcome.kind = "flood_ok")>>
    ELSE <<Hop(from_chat_id, to_chat_id, depth, "ok", 1, TRUE)>>
         \o (IF HasRule(to_chat_id) /\ ~rules[to_chat_id].paused
                /\ rules[to_chat_id].target_id # 0
             THEN shift_forward_message_deeper(to_chat_id,
                      rules[to_chat_id].target_id, depth + 1, outcome)
             ELSE <<>>)

RECURSIVE shift_forward_message_retrying(_, _, _, _)
shift_forward_message_retrying(from_chat_id, to_chat_id, depth, outcome) ==
    IF depth > MaxDepth THEN <<>>
    ELSE IF outcome.failAt = depth
    THEN <<Hop(from_chat_id, to_chat_id, depth, outcome.kind,
               IF outcome.kind = "flood_ok" THEN 2
               ELSE IF outcome.kind = "flood_fail" THEN 3
               ELSE IF outcome.kind = "blocked" THEN 2 ELSE 1,
               outcome.kind = "flood_ok")>>
    ELSE <<Hop(from_chat_id, to_chat_id, depth, "ok", 1, TRUE)>>
         \o (IF HasRule(to_chat_id) /\ ~rules[to_chat_id].paused
                /\ rules[to_chat_id].target_id # 0
             THEN shift_forward_message_retrying(to_chat_id,
                      rules[to_chat_id].target_id, depth + 1, outcome)
             ELSE <<>>)

RECURSIVE shift_forward_message(_, _, _, _)
shift_forward_message(from_chat_id, to_chat_id, depth, outcome) ==
    IF depth > MaxDepth THEN <<>>
    ELSE IF outcome.failAt = depth
    THEN <<Hop(from_chat_id, to_chat_id, depth, outcome.kind,
               IF outcome.kind \in {"flood_ok", "flood_fail"} THEN 2 ELSE 1,
               outcome.kind = "flood_ok")>>
    ELSE <<Hop(from_chat_id, to_chat_id, depth, "ok", 1, TRUE)>>
         \o (IF HasRule(to_chat_id) /\ ~rules[to_chat_id].paused
                /\ rules[to_chat_id].target_id # 0
             THEN shift_forward_message(to_chat_id, rules[to_chat_id].target_id,
                                        depth + 1, outcome)
             ELSE <<>>)

StatKeys == {"total"} \cup AVAILABLE_OPTIONS
NoStats == [k \in StatKeys |-> 0]

update_stats(source_id, message_type) ==
    LET old == IF source_id \in DOMAIN stats THEN stats[source_id] ELSE NoStats
    IN [s \in DOMAIN stats \cup {source_id} |->
          IF s = source_id
          THEN [k \in StatKeys |->
                  IF k = "total" \/ k = message_type THEN old[k] + 1 ELSE old[k]]
          ELSE stats[s]]

Seen(mtype, hops) == [message_type |-> mtype, hops |-> hops]

shift_channel_message(msg) ==
    /\ shiftOps < MaxShiftOps
    /\ shiftOps' = shiftOps + 1
    /\ reply' = None
    /\ LET source_id == msg.chat IN
       IF ~HasRule(source_id) \/ rules[source_id].paused
          \/ rules[source_id].target_id = 0
       THEN /\ relay' = NoRelay
            /\ UNCHANGED <<rules, stats>>
       ELSE IF msg.noforwards
       THEN /\ rules' = [k \in DOMAIN rules \ {source_id} |-> rules[k]]
            /\ relay' = NoRelay
            /\ UNCHANGED stats
       ELSE IF is_message_filtered(msg.text, source_id)
       THEN /\ relay' = NoRelay
            /\ UNCHANGED <<rules, stats>>
       ELSE \E message_type \in get_media_type(msg) :
              LET options == rules[source_id].options IN
              IF options # {} /\ "all" \notin options /\ message_type \notin options
              THEN /\ relay' = Seen(message_type, <<>>)
                   /\ UNCHANGED <<rules, stats>>
              ELSE \E outcome \in ForwardOutcomes :
                     /\ relay' = Seen(message_type,
                                      shift_forward_message(source_id,
                                          rules[source_id].target_id, 0, outcome))
                     /\ stats' = update_stats(source_id, message_type)
                     /\ UNCHANGED rules
    /\ UNCHANGED <<dlVars, bfVars, cmVars, abVars, restVars>>

(***************************************************************************)
(* gdl / ytdl: gallery_dl_common and ytdl_common                          *)
(*                                                                         *)
(* A handler is a coroutine on one event loop: the code between two awaits *)
(* runs without interruption, and another invocation can run only while    *)
(* this one is suspended in an await.  One action is one such segment.     *)
(***************************************************************************)
Plugins == {"gdl", "ytdl"}

\* Bound on the number of invocations of each plugin in one behaviour.
MaxCalls == 3
Invocations == Plugins \X (1..MaxCalls)

\* Where an invocation is:
\*   idle        not yet made
\*   no_ffmpeg   ytdl answered that ffmpeg is missing (returned)
\*   refused     answered "a download task is running" (returned)
\*   first_edit  ytdl awaits its first message.edit, before the try block
\*   status      gdl awaits its first message.edit, inside the try block
\*   download    awaits the download (gallery-dl process / _ytdl_download)
\*   report      gdl awaits the edit that reports a failed or empty download
\*   upload      awaits the upload and message.delete
\*   except      awaits the message.edit of the except block
\*   done        returned through the finally block
\*   escaped     an exception left the handler before the try block
InFlight == {"first_edit", "status", "download", "report", "upload", "except"}
Outcomes == {"ok", "raise", "fail"}

\* An invocation is made only after the earlier ones of its plugin.
CanInvoke(i) ==
    /\ pc[i] = "idle"
    /\ \A n \in 1..(i[2] - 1) : pc[<<i[1], n>>] # "idle"

is_downloading_never(plugin) == FALSE

\* gallery_dl_is_downloading / ytdl_is_downloading
is_downloading(plugin) == busy[plugin]

\* the finally block: clear the flag, remove the working directory
finally(i) ==
    /\ busy' = [busy EXCEPT ![i[1]] = FALSE]
    /\ workdir' = workdir \ {i}
    /\ pc' = [pc EXCEPT ![i] = "done"]

\* `gdl <url>` up to its first await.  mkdir_ok: whether
\* download_path.mkdir(parents=True, exist_ok=True) succeeds.
gallery_dl_common(i, mkdir_ok) ==
    /\ i[1] = "gdl" /\ CanInvoke(i)
    /\ IF is_downloading("gdl")
       THEN /\ pc' = [pc EXCEPT ![i] = "refused"]
            /\ UNCHANGED <<busy, workdir>>
       ELSE /\ busy' = [busy EXCEPT !["gdl"] = TRUE]
            /\ IF mkdir_ok
               THEN /\ workdir' = workdir \cup {i}
                    /\ pc' = [pc EXCEPT ![i] = "status"]
               ELSE /\ pc' = [pc EXCEPT ![i] = "escaped"]
                    /\ UNCHANGED workdir
    /\ UNCHANGED <<downloads, ffmpeg>>
    /\ UNCHANGED <<shiftVars, bfVars, cmVars, abVars, restVars>>

\* gallery_dl_common from one await to the next; outcome is what the await
\* it was suspended in does: return, raise, or (for the download) end with a
\* non-zero return code or without files.
gallery_dl_resume(i, outcome) ==
    /\ i[1] = "gdl" /\ pc[i] \in InFlight
    /\ CASE pc[i] = "status" /\ outcome = "ok" ->
              /\ pc' = [pc EXCEPT ![i] = "download"]
              /\ downloads' = downloads \cup {i}
              /\ UNCHANGED <<busy, workdir>>
         [] pc[i] = "download" /\ outcome = "ok" ->
              /\ pc' = [pc EXCEPT ![i] = "upload"]
              /\ UNCHANGED <<busy, workdir, downloads>>
         [] pc[i] = "download" /\ outcome = "fail" ->
              /\ pc' = [pc EXCEPT ![i] = "report"]
              /\ UNCHANGED <<busy, workdir, downloads>>
         [] pc[i] \in {"upload", "report"} /\ outcome = "ok" ->
              /\ finally(i)
              /\ UNCHANGED downloads
         [] pc[i] = "except" /\ outcome \in {"ok", "raise"} ->
              /\ finally(i)
              /\ UNCHANGED downloads
         [] pc[i] # "except" /\ outcome = "raise" ->
              /\ pc' = [pc EXCEPT ![i] = "except"]
              /\ UNCHANGED <<busy, workdir, downloads>>
         [] OTHER -> FALSE
    /\ UNCHANGED ffmpeg
    /\ UNCHANGED <<shiftVars, bfVars, cmVars, abVars, restVars>>

\* ytdl_common with the removal of data/ytdl moved ahead of the test of the
\* flag: a refused invocation then removes the directory of the job in flight.
ytdl_common_clearing_first(i, mkdir_ok) ==
    /\ i[1] = "ytdl" /\ CanInvoke(i)
    /\ IF ~ffmpeg
       THEN /\ pc' = [pc EXCEPT ![i] = "no_ffmpeg"]
            /\ UNCHANGED <<busy, workdir>>
       ELSE IF is_downloading("ytdl")
       THEN /\ pc' = [pc EXCEPT ![i] = "refused"]
            /\ workdir' = {j \in workdir : j[1] # "ytdl"}
            /\ UNCHANGED busy
       ELSE /\ busy' = [busy EXCEPT !["ytdl"] = TRUE]
            /\ IF mkdir_ok
               THEN /\ workdir' = {j \in workdir : j[1] # "ytdl"} \cup {i}
                    /\ pc' = [pc EXCEPT ![i] = "first_edit"]
               ELSE /\ workdir' = {j \in workdir : j[1] # "ytdl"}
                    /\ pc' = [pc EXCEPT ![i] = "escaped"]
    /\ UNCHANGED <<downloads, ffmpeg>>
    /\ UNCHANGED <<shiftVars, bfVars, cmVars, abVars, restVars>>

\* `ytdl [m] <url>` up to its first await.  mkdir_ok: whether
\* download_path.mkdir succeeds (the rmtree before it is suppressed).
\* data/ytdl is one directory for all invocations.
ytdl_common(i, mkdir_ok) ==
    /\ i[1] = "ytdl" /\ CanInvoke(i)
    /\ IF ~ffmpeg
       THEN /\ pc' = [pc EXCEPT ![i] = "no_ffmpeg"]
            /\ UNCHANGED <<busy, workdir>>
       ELSE IF is_downloading("ytdl")
       THEN /\ pc' = [pc EXCEPT ![i] = "refused"]
            /\ UNCHANGED <<busy, workdir>>
       ELSE /\ busy' = [busy EXCEPT !["ytdl"] = TRUE]
            /\ IF mkdir_ok
               THEN /\ workdir' = {j \in workdir : j[1] # "ytdl"} \cup {i}
                    /\ pc' = [pc EXCEPT ![i] = "first_edit"]
               ELSE /\ workdir' = {j \in workdir : j[1] # "ytdl"}
                    /\ pc' = [pc EXCEPT ![i] = "escaped"]
    /\ UNCHANGED <<downloads, ffmpeg>>
    /\ UNCHANGED <<shiftVars, bfVars, cmVars, abVars, restVars>>

\* ytdl_common from one await to the next.
ytdl_resume(i, outcome) ==
    /\ i[1] = "ytdl" /\ pc[i] \in InFlight
    /\ CASE pc[i] = "first_edit" /\ outcome = "ok" ->
              /\ pc' = [pc EXCEPT ![i] = "download"]
              /\ downloads' = downloads \cup {i}
              /\ UNCHANGED <<busy, workdir>>
         [] pc[i] = "first_edit" /\ outcome = "raise" ->
              /\ pc' = [pc EXCEPT ![i] = "escaped"]
              /\ UNCHANGED <<busy, workdir, downloads>>
         [] pc[i] = "download" /\ outcome = "ok" ->
              /\ pc' = [pc EXCEPT ![i] = "upload"]
              /\ UNCHANGED <<busy, workdir, downloads>>
         [] pc[i] = "upload" /\ outcome = "ok" ->
              /\ finally(i)
              /\ UNCHANGED downloads
         [] pc[i] = "except" /\ outcome \in {"ok", "raise"} ->
              /\ finally(i)
              /\ UNCHANGED downloads
         [] pc[i] \in {"download", "upload"} /\ outcome = "raise" ->
              /\ pc' = [pc EXCEPT ![i] = "except"]
              /\ UNCHANGED <<busy, workdir, downloads>>
         [] OTHER -> FALSE
    /\ UNCHANGED ffmpeg
    /\ UNCHANGED <<shiftVars, bfVars, cmVars, abVars, restVars>>

(***************************************************************************)
(* bf / hf: paths, archives, extraction                                    *)
(*                                                                         *)
(* A path is the sequence of its components.  The files of the program     *)
(* directory are a function from their path, relative to that directory,   *)
(* to their content; a file of an archive has the content "new".           *)
(***************************************************************************)
\* Bound on the number of bf / hf commands in one behaviour.
MaxBfOps == 2
\* Bound on the number of commands in one behaviour when hf is among them.
MaxHfOps == 3
\* Bound on the number of members of an archive given to hf.
MaxMembers == 2

SessionFiles == {<<"data", "pagermaid.session">>,
                 <<"data", "pagermaid.session-journal">>}
BaseFiles == {<<"data", "a.json">>, <<"data", "x.log">>, <<"data", "big.db">>,
              <<"data", "cache", "c.bin">>, <<"plugins", "p.py">>,
              <<"plugins", "n.txt">>, <<".env">>}

\* os.path.splitext(fname)[1]
splitext ==
    [fname \in {"a.json", "x.log", "big.db", "c.bin", "p.py", "n.txt", ".env",
                "pagermaid.session", "pagermaid.session-journal", "evil",
                "passwd", "x"} |->
        CASE fname = "a.json" -> ".json"
          [] fname = "x.log" -> ".log"
          [] fname = "big.db" -> ".db"
          [] fname = "c.bin" -> ".bin"
          [] fname = "p.py" -> ".py"
          [] fname = "n.txt" -> ".txt"
          [] fname = "pagermaid.session" -> ".session"
          [] fname = "pagermaid.session-journal" -> ".session-journal"
          [] OTHER -> ""]

\* files larger than the 20 MB limit of `bf all slim`
LargeFiles == {"big.db"}

basename(path) == path[Len(path)]
dirnames(path) == {path[i] : i \in 2..(Len(path) - 1)}

\* fname.endswith(".session") or fname.endswith(".session-journal")
is_session_file(path) ==
    path # <<>> /\ splitext[basename(path)] \in {".session", ".session-journal"}

IsPrefix(a, b) == Len(a) <= Len(b) /\ SubSeq(b, 1, Len(a)) = a
Strip(path, n) == SubSeq(path, n + 1, Len(path))

\* create_tar_gz over the top-level items source_dirs of the program
\* directory: every file below them whose directories are not in
\* exclude_dirs, whose suffix is not in exclude_exts and which is not over
\* the size limit, as pagermaid_backup/<item>/<relative path>.
create_tar_gz(source_dirs, exclude_dirs, exclude_exts, size_limit) ==
    {<<"pagermaid_backup">> \o path :
        path \in {f \in DOMAIN live :
                    /\ f[1] \in source_dirs
                    /\ dirnames(f) \cap exclude_dirs = {}
                    /\ splitext[basename(f)] \notin exclude_exts
                    /\ ~(size_limit /\ basename(f) \in LargeFiles)}}

\* create_data_plugins_backup without the test of exclude_session
create_data_plugins_backup_with_sessions(exclude_session) ==
    {<<"pagermaid_backup">> \o path :
        path \in {f \in DOMAIN live :
                    /\ Len(f) > 1 /\ f[1] \in {"plugins", "data"}
                    /\ "__pycache__" \notin dirnames(f)}}

\* create_data_plugins_backup: the files below plugins and data, without
\* __pycache__ and, when exclude_session, without session files.
create_data_plugins_backup(exclude_session) ==
    {<<"pagermaid_backup">> \o path :
        path \in {f \in DOMAIN live :
                    /\ Len(f) > 1 /\ f[1] \in {"plugins", "data"}
                    /\ "__pycache__" \notin dirnames(f)
                    /\ ~(exclude_session /\ is_session_file(f))}}

\* _gather_session_files(data_dir)
gather_session_files ==
    {f \in DOMAIN live : Len(f) > 1 /\ f[1] = "data" /\ is_session_file(f)}

\* create_sessions_archive: sessions/<path relative to data>
create_sessions_archive == {<<"sessions">> \o Strip(f, 1) : f \in gather_session_files}

(***************************************************************************)
(* safe_extract / un_tar_gz                                                *)
(***************************************************************************)
\* A member name: whether it starts with "/", and its components.
Rel(parts) == [abs |-> FALSE, parts |-> parts]
MemberNames ==
    {Rel(<<"pagermaid_backup", "data", "a.json">>),
     Rel(<<"pagermaid_backup", "data", "pagermaid.session">>),
     Rel(<<"data", "a.json">>),
     Rel(<<"data", "pagermaid.session">>),
     Rel(<<"plugins", "p.py">>),
     Rel(<<".", "data", "a.json">>),
     Rel(<<"..", "evil">>),
     Rel(<<"data", "..", "..", "evil">>),
     Rel(<<"..", "_tmp_restore", "data", "a.json">>),
     Rel(<<"evil", "x">>),
     [abs |-> TRUE, parts |-> <<"etc", "passwd">>]}

\* An archive is the sequence of its members' names, without repeats.
Archives ==
    {ar \in UNION {[1..n -> MemberNames] : n \in 0..MaxMembers} :
        \A i \in DOMAIN ar, j \in DOMAIN ar : ar[i] = ar[j] => i = j}

\* os.path.normpath on the components: "." is dropped, ".." removes the
\* component before it, stays in front of a relative path and is dropped at
\* the root.
RECURSIVE norm_parts(_, _, _)
norm_parts(parts, out, abs) ==
    IF parts = <<>> THEN out
    ELSE LET c == Head(parts) IN
         IF c = "." THEN norm_parts(Tail(parts), out, abs)
         ELSE IF c = ".."
         THEN IF out # <<>> /\ out[Len(out)] # ".."
              THEN norm_parts(Tail(parts), SubSeq(out, 1, Len(out) - 1), abs)
              ELSE IF abs THEN norm_parts(Tail(parts), out, abs)
              ELSE norm_parts(Tail(parts), Append(out, ".."), abs)
         ELSE norm_parts(Tail(parts), Append(out, c), abs)

normpath(name) == [abs |-> name.abs, parts |-> norm_parts(name.parts, <<>>, name.abs)]

\* the directory hf extracts into: <program_dir>/_tmp_restore
ExtractDir == <<"prog", "_tmp_restore">>
allowed_dirs == {"plugins", "data", "pagermaid_backup"}

\* os.path.abspath(os.path.join(path, member_path))
full_path(member_path) ==
    IF member_path.abs THEN member_path.parts
    ELSE norm_parts(ExtractDir \o member_path.parts, <<>>, TRUE)

\* member_path.split(os.sep): normpath of an empty path is "."
path_parts(member_path) ==
    IF member_path.parts = <<>> THEN <<".">> ELSE member_path.parts

\* the three checks of safe_extract on one member
member_raises(name) ==
    LET member_path == normpath(name) IN
    \/ member_path.abs
    \/ ~IsPrefix(ExtractDir, full_path(member_path))
    \/ path_parts(member_path)[1] \notin allowed_dirs

\* where tar.extractall puts a member, relative to the extraction directory
extracted_path(name) == Strip(full_path(normpath(name)), Len(ExtractDir))

safe_extract_while_checking(ar) ==
    LET bad == {i \in DOMAIN ar : member_raises(ar[i])}
        upto == IF bad = {} THEN Len(ar)
                ELSE (CHOOSE i \in bad : \A j \in bad : i <= j) - 1
    IN [raised |-> bad # {},
        written |-> {extracted_path(ar[i]) : i \in 1..upto}]

\* safe_extract: every member is checked, and only then tar.extractall runs
safe_extract(ar) ==
    IF \E i \in DOMAIN ar : member_raises(ar[i])
    THEN [raised |-> TRUE, written |-> {}]
    ELSE [raised |-> FALSE,
          written |-> {extracted_path(ar[i]) : i \in DOMAIN ar}]

\* un_tar_gz: False when safe_extract raised
un_tar_gz(ar) ==
    LET res == safe_extract(ar)
    IN [kind |-> "extract", archive |-> ar, ok |-> ~res.raised,
        written |-> res.written]

(***************************************************************************)
(* The bf and hf commands                                                  *)
(***************************************************************************)
Produced(kind, names) == [kind |-> kind, members |-> names]

\* the body shared by `bf` and the cron backup: the data + plugins archive
\* without session files and, when upload_sessions is set and session files
\* exist, the sessions archive
standard_backup ==
    {Produced("standard", create_data_plugins_backup(TRUE))}
    \cup (IF uploadSessions /\ gather_session_files # {}
          THEN {Produced("sessions", create_sessions_archive)}
          ELSE {})

\* `bf`
bf_standard ==
    /\ bfOps < MaxBfOps
    /\ bfOps' = bfOps + 1
    /\ archives' = standard_backup
    /\ lastExtract' = None
    /\ hfReply' = None
    /\ UNCHANGED <<live, uploadSessions, hfConfirm, staged, tmpFiles>>
    /\ UNCHANGED <<shiftVars, dlVars, cmVars, abVars, restVars>>

\* the backup _cron_loop starts when the cron expression matches
run_standard_backup_via_client ==
    /\ bfOps < MaxBfOps
    /\ bfOps' = bfOps + 1
    /\ archives' = standard_backup
    /\ lastExtract' = None
    /\ hfReply' = None
    /\ UNCHANGED <<live, uploadSessions, hfConfirm, staged, tmpFiles>>
    /\ UNCHANGED <<shiftVars, dlVars, cmVars, abVars, restVars>>

\* directory names `bf all` leaves out; slim leaves out more
exclude_dirnames(slim_mode) ==
    {".git", "__pycache__", "cache", "logs"}
    \cup (IF slim_mode THEN {"tmp", "temp"} ELSE {})

\* `bf all [slim|fast]`: every top-level item that is not a dotfile
bf_all(slim_mode) ==
    /\ bfOps < MaxBfOps
    /\ bfOps' = bfOps + 1
    /\ LET include_items == {f[1] : f \in DOMAIN live} \ {".env"}
       IN archives' = {Produced("full",
                          create_tar_gz(include_items, exclude_dirnames(slim_mode),
                                        {".log"}, slim_mode))}
    /\ lastExtract' = None
    /\ hfReply' = None
    /\ UNCHANGED <<live, uploadSessions, hfConfirm, staged, tmpFiles>>
    /\ UNCHANGED <<shiftVars, dlVars, cmVars, abVars, restVars>>

\* `bf p`: the .py files below plugins, copied to a temporary plugins
\* directory that create_tar_gz then packs
bf_p ==
    /\ bfOps < MaxBfOps
    /\ bfOps' = bfOps + 1
    /\ LET py == {f \in DOMAIN live :
                    /\ Len(f) > 1 /\ f[1] = "plugins"
                    /\ "__pycache__" \notin dirnames(f)
                    /\ splitext[basename(f)] = ".py"}
       IN archives' = IF py = {} THEN {}
                      ELSE {Produced("plugins", {<<"pagermaid_backup">> \o f : f \in py})}
    /\ lastExtract' = None
    /\ hfReply' = None
    /\ UNCHANGED <<live, uploadSessions, hfConfirm, staged, tmpFiles>>
    /\ UNCHANGED <<shiftVars, dlVars, cmVars, abVars, restVars>>

\* A .tar.gz file in a message: the one replied to, or the latest among the
\* saved messages; None when there is none.
File(ar) == [kind |-> "file", members |-> ar]
BackupMessages == {None} \cup {File(ar) : ar \in Archives}

\* `hf` without "confirm": shows the warning that names the candidate; a
\* replied-to archive is downloaded to the staging path.  Nothing else is
\* written.
hf(replied_msg, saved_msg) ==
    /\ bfOps < MaxHfOps
    /\ bfOps' = bfOps + 1
    /\ IF replied_msg # None
       THEN /\ staged' = replied_msg
            /\ hfReply' = [kind |-> "warning", candidate |-> replied_msg]
       ELSE /\ UNCHANGED staged
            /\ hfReply' = IF saved_msg # None
                          THEN [kind |-> "warning", candidate |-> saved_msg]
                          ELSE [kind |-> "no_backup"]
    /\ archives' = {}
    /\ lastExtract' = None
    /\ UNCHANGED <<live, uploadSessions, hfConfirm, tmpFiles>>
    /\ UNCHANGED <<shiftVars, dlVars, cmVars, abVars, restVars>>

\* the folder of the extracted tree that hf takes as the backup's root
final_backup_folder(written) ==
    LET dirs == {f[1] : f \in {g \in written : Len(g) > 1}}
        files == {f[1] : f \in {g \in written : Len(g) = 1}}
    IN IF "pagermaid_backup" \in dirs \cup files
       THEN [raised |-> FALSE, folder |-> <<"pagermaid_backup">>]
       ELSE IF Cardinality(dirs) = 1 /\ files = {}
       THEN [raised |-> FALSE, folder |-> <<CHOOSE d \in dirs : TRUE>>]
       ELSE IF {"data", "plugins"} \cap dirs # {}
       THEN [raised |-> FALSE, folder |-> <<>>]
       ELSE [raised |-> TRUE, folder |-> <<>>]

\* the copy loop: every file below the root that is not a session file goes
\* to <program_dir>/<path relative to the root>
copy_to_live(written, folder) ==
    LET copied == {Strip(f, Len(folder)) :
                     f \in {g \in written : /\ IsPrefix(folder, g)
                                           /\ Len(g) > Len(folder)
                                           /\ ~is_session_file(g)}}
    IN [f \in DOMAIN live \cup copied |-> IF f \in copied THEN "new" ELSE live[f]]

\* The paths `hf confirm` works with; NoPath is a path variable still None.
NoPath == ""
selected_temp_path == "data/_hf_selected_backup.tar.gz"
DownloadPath == "pagermaid_backup.tar.gz"
temp_extract_dir == "_tmp_restore"

\* os.remove(path) and shutil.rmtree(path) on the set of existing paths
remove(files, path) == files \ {path}

\* the except branch of `hf confirm` that keeps the temporary paths
restore_failed_keeping(files, extract_dir, pgm_backup_zip_name) == files

\* the except branch of `hf confirm`: the extraction directory and the
\* archive are removed when the handler got as far as naming them
restore_failed(files, extract_dir, pgm_backup_zip_name) ==
    LET no_dir == IF extract_dir # NoPath THEN remove(files, extract_dir)
                  ELSE files
    IN IF pgm_backup_zip_name # NoPath
       THEN remove(no_dir, pgm_backup_zip_name)
       ELSE no_dir

\* `hf confirm`: the staged archive, else the replied-to or latest saved one
\* once downloaded, is extracted into the extraction directory, the live
\* data + plugins are packed and sent, the extracted files are copied over
\* the program directory.  download_ok is whether download_media returned;
\* safety_ok is whether packing and sending the pre-restore archive went
\* through (the code catches every exception of that block and goes on);
\* copy_ok is whether the copy loop ran to its end.
hf_confirm(backup_msg, download_ok, safety_ok, copy_ok) ==
    /\ bfOps < MaxHfOps
    /\ bfOps' = bfOps + 1
    /\ LET exists == tmpFiles \cup (IF staged # None THEN {selected_temp_path} ELSE {})
           chosen == IF staged # None THEN staged ELSE backup_msg
           pgm_backup_zip_name == IF staged # None THEN selected_temp_path
                                  ELSE DownloadPath
           left(files) ==
               /\ tmpFiles' = files \ {selected_temp_path}
               /\ staged' = IF selected_temp_path \in files THEN staged ELSE None
       IN
       IF chosen = None
       THEN /\ hfReply' = [kind |-> "not_found"]
            /\ lastExtract' = None
            /\ archives' = {}
            /\ left(exists)
            /\ UNCHANGED live
       ELSE IF staged = None /\ ~download_ok
       THEN /\ hfReply' = [kind |-> "failed"]
            /\ lastExtract' = None
            /\ archives' = {}
            /\ left(restore_failed(exists, NoPath, NoPath))
            /\ UNCHANGED live
       ELSE LET ex == un_tar_gz(chosen.members)
                root == final_backup_folder(ex.written)
                extracting == exists \cup {pgm_backup_zip_name, temp_extract_dir}
                extracted == remove(extracting, pgm_backup_zip_name)
            IN /\ lastExtract' = ex
               /\ IF ~ex.ok
                  THEN /\ hfReply' = [kind |-> "extract_failed"]
                       /\ archives' = {}
                       /\ left(remove(extracted, temp_extract_dir))
                       /\ UNCHANGED live
                  ELSE IF root.raised
                  THEN /\ hfReply' = [kind |-> "failed"]
                       /\ archives' = {}
                       /\ left(restore_failed(extracted, temp_extract_dir,
                                              pgm_backup_zip_name))
                       /\ UNCHANGED live
                  ELSE /\ archives' = IF safety_ok
                                      THEN {Produced("pre_restore",
                                              create_tar_gz({"data", "plugins"}, {}, {}, FALSE))}
                                      ELSE {}
                       /\ IF copy_ok
                          THEN /\ hfReply' = [kind |-> "done"]
                               /\ live' = copy_to_live(ex.written, root.folder)
                               /\ left(remove(remove(extracted, temp_extract_dir),
                                              selected_temp_path))
                          ELSE /\ hfReply' = [kind |-> "failed"]
                               /\ \E copied \in SUBSET ex.written \ {ex.written} :
                                     live' = copy_to_live(copied, root.folder)
                               /\ left(restore_failed(extracted, temp_extract_dir,
                                                      pgm_backup_zip_name))
    /\ UNCHANGED <<uploadSessions, hfConfirm>>
    /\ UNCHANGED <<shiftVars, dlVars, cmVars, abVars, restVars>>

(***************************************************************************)
(* clean_member                                                            *)
(***************************************************************************)
CmUsers == 1..3
Modes == {"1", "2", "3", "4", "5"}

\* Bound on the number of clean_member commands in one behaviour.
MaxCmOps == 2

\* The clock counts hours.  A cache entry lives CACHE_EXPIRE_HOURS; time
\* passes in steps of HourSteps hours, up to MaxNow.
CACHE_EXPIRE_HOURS == 24
HourSteps == {12, 13}
MaxNow == 25

\* Bound on the FloodWaitErrors the platform answers in a row to the
\* edit_permissions calls for one member.
MaxFloods == 2

\* What the last clean_member command did: the cache entry load_cache gave
\* it, whether it enumerated the participants, the users it called
\* kick_chat_member for and the number of times the two-step kick was
\* started for each of them; dropped: the entries load_cache removed.
NoRun == [mode |-> "", only_search |-> FALSE, cache_data |-> None,
          dropped |-> {}, enumerated |-> FALSE, kicked |-> {}, attempts |-> 0]

time_passes(hours) ==
    /\ now + hours <= MaxNow
    /\ now' = now + hours
    /\ UNCHANGED <<members, admins, cache, restricted, cmOps, cmLast>>
    /\ UNCHANGED <<shiftVars, dlVars, bfVars, abVars, restVars>>

\* filter_target_users: admins are skipped; mode 5 takes every other
\* participant, modes 1 to 4 those that meet the mode's criterion (last seen,
\* last message, message count, deleted account), which is read from the
\* platform: matching is the set of participants that meet it.
filter_target_users(participants, mode, matching, admin_ids) ==
    {uid \in participants :
        /\ uid \notin admin_ids
        /\ (mode = "5" \/ uid \in matching)}

\* save_cache: the entry of the mode is written with expire_time 24 hours
\* ahead.
save_cache(files, mode, target_users) ==
    [m \in DOMAIN files \cup {mode} |->
        IF m = mode
        THEN [users |-> target_users, expire_time |-> now + CACHE_EXPIRE_HOURS]
        ELSE files[m]]

\* load_cache answers with the entry it read (None when there is none) and
\* with the cache files it leaves: an entry past its expire_time is removed.
load_cache_stale(files, mode) ==
    IF mode \notin DOMAIN files THEN [cache_data |-> None, files |-> files]
    ELSE [cache_data |-> files[mode], files |-> files]

load_cache_miss(files, mode) ==
    [cache_data |-> None, files |-> files]

load_cache(files, mode) ==
    IF mode \notin DOMAIN files THEN [cache_data |-> None, files |-> files]
    ELSE IF now > files[mode].expire_time
    THEN [cache_data |-> None,
          files |-> [m \in DOMAIN files \ {mode} |-> files[m]]]
    ELSE [cache_data |-> files[mode], files |-> files]

\* clean_expired_cache removes every entry past its expire_time; when the
\* directory cannot be listed the error is ignored and nothing is removed.
clean_expired_cache(listing_ok) ==
    IF listing_ok
    THEN [m \in {k \in DOMAIN cache : ~(now > cache[k].expire_time)} |-> cache[m]]
    ELSE cache

\* kick_chat_member for each of uids: edit_permissions(view_messages=False),
\* then edit_permissions(view_messages=True).  For an admin the platform
\* answers UserAdminInvalidError, which is suppressed.
kick_chat_member(uids) ==
    /\ restricted' = restricted \cup {[uid |-> u, admin |-> u \in admins] : u \in uids}
    /\ members' = members \ (uids \ admins)

\* The `except FloodWaitError` branch of kick_chat_member sleeps and calls
\* kick_chat_member again, under the same handler: after floods
\* FloodWaitErrors in a row the two-step kick has been started floods + 1
\* times.
kick_attempts(floods) == floods + 1

\* process_clean_member.  listing_ok: whether clean_expired_cache could list
\* the cache directory; query_ok and seen: whether the admin query ended
\* without an exception, and the admins it had yielded when it raised.
process_clean_member(mode, only_search, listing_ok, matching, query_ok, seen, floods) ==
    /\ cmOps < MaxCmOps
    /\ cmOps' = cmOps + 1
    /\ LET swept == clean_expired_cache(listing_ok)
           loaded == load_cache(swept, mode)
           cache_data == loaded.cache_data
           admin_ids == IF query_ok THEN admins ELSE seen
           target_users == filter_target_users(members, mode, matching, admin_ids)
           ran(enumerated, kicked) ==
               [mode |-> mode, only_search |-> only_search,
                cache_data |-> cache_data,
                dropped |-> DOMAIN swept \ DOMAIN loaded.files,
                enumerated |-> enumerated,
                kicked |-> kicked,
                attempts |-> IF kicked = {} THEN 0 ELSE kick_attempts(floods)]
       IN IF cache_data # None
          THEN /\ cache' = loaded.files
               /\ IF only_search
                  THEN /\ UNCHANGED <<members, restricted>>
                       /\ cmLast' = ran(FALSE, {})
                  ELSE /\ kick_chat_member(cache_data.users)
                       /\ cmLast' = ran(FALSE, cache_data.users)
          ELSE IF only_search
          THEN /\ cache' = save_cache(loaded.files, mode, target_users)
               /\ UNCHANGED <<members, restricted>>
               /\ cmLast' = ran(TRUE, {})
          ELSE /\ cache' = loaded.files
               /\ kick_chat_member(target_users)
               /\ cmLast' = ran(TRUE, target_users)
    /\ UNCHANGED <<admins, now>>
    /\ UNCHANGED <<shiftVars, dlVars, bfVars, abVars, restVars>>

(***************************************************************************)
(* aban: kick, ban, unban, mute, unmute, sb, unsb                          *)
(***************************************************************************)
\* Bound on the number of moderation commands in one behaviour.
MaxAbOps == 1

BATCH_SIZE == 20
\* the `<= 3` and `[:3]` of the failed-groups line of the sb / unsb report
TitleLimit == 3
\* minutes = max(1, min(int(args[1]), 1440)); the default is 60
MinMinutes == 1
MaxMinutes == 1440
DefaultMinutes == 60

\* The chats of the account: the command is given in chat Here.  The title
\* of a chat is its number.
AbChats == 1..(BATCH_SIZE + 2)
Here == 1

\* None, for a user id and for an entity
NoUid == 0
\* "@a" is the handle of user 7; user 8 has no handle.
AbUsers == {7, 8}
Handles == (<<"@", "a">> :> 7)

digit_value ==
    ("0" :> 0) @@ ("1" :> 1) @@ ("2" :> 2) @@ ("3" :> 3) @@ ("4" :> 4) @@
    ("5" :> 5) @@ ("6" :> 6) @@ ("7" :> 7) @@ ("8" :> 8) @@ ("9" :> 9)

\* str.isdigit(), str.lstrip('-'), str.startswith("@"), int()
isdigit(str) == str # <<>> /\ \A i \in DOMAIN str : str[i] \in DOMAIN digit_value

RECURSIVE lstrip_minus(_)
lstrip_minus(str) ==
    IF str # <<>> /\ Head(str) = "-" THEN lstrip_minus(Tail(str)) ELSE str

startswith_at(str) == str # <<>> /\ Head(str) = "@"

RECURSIVE int_digits(_, _)
int_digits(str, acc) ==
    IF str = <<>> THEN acc
    ELSE int_digits(Tail(str), 10 * acc + digit_value[Head(str)])

\* int(str) raises ValueError unless str is an optional sign and digits
int_raises(str) ==
    ~(isdigit(str) \/ (str # <<>> /\ Head(str) = "-" /\ isdigit(Tail(str))))
int(str) == IF Head(str) = "-" THEN 0 - int_digits(Tail(str), 0)
            ELSE int_digits(str, 0)

\* safe_get_entity: the entity of a handle or of an id, None when the client
\* cannot resolve it (known: whether the client can).
safe_get_entity(target, known) ==
    IF ~known THEN NoUid
    ELSE IF startswith_at(target)
    THEN IF target \in DOMAIN Handles THEN Handles[target] ELSE NoUid
    ELSE int(target)

\* get_target_user: (entity, id).  reply_sender is the sender of the message
\* the command replies to, NoUid when the command is not a reply.
get_target_user_fallback(args, reply_sender, known) ==
    IF args # <<>> /\ startswith_at(args[1])
    THEN LET entity == safe_get_entity(args[1], known)
         IN [user |-> entity, uid |-> entity]
    ELSE IF args # <<>> /\ isdigit(lstrip_minus(args[1])) /\ ~int_raises(args[1])
    THEN [user |-> safe_get_entity(args[1], known), uid |-> int(args[1])]
    ELSE [user |-> reply_sender, uid |-> reply_sender]

get_target_user(args, reply_sender, known) ==
    IF args # <<>>
    THEN LET raw == args[1] IN
         IF startswith_at(raw)
         THEN LET entity == safe_get_entity(raw, known)
              IN [user |-> entity, uid |-> entity]
         ELSE IF isdigit(lstrip_minus(raw))
         THEN IF int_raises(raw) THEN [user |-> NoUid, uid |-> NoUid]
              ELSE [user |-> safe_get_entity(raw, known), uid |-> int(raw)]
         ELSE [user |-> NoUid, uid |-> NoUid]
    ELSE [user |-> reply_sender, uid |-> reply_sender]

\* get_managed_groups: the chats where the account can ban, in the order of
\* the dialogs; none when the dialogs cannot be listed.
RECURSIVE ascending(_)
ascending(set) ==
    IF set = {} THEN <<>>
    ELSE LET least == CHOOSE x \in set : \A y \in set : x <= y
         IN <<least>> \o ascending(set \ {least})

get_managed_groups(dialogs_ok) == IF dialogs_ok THEN ascending(abRights) ELSE <<>>

\* handle_user_action followed by _resolve_user_if_needed: what the command
\* goes on with.  An id the client has no entity for is looked for across the
\* managed groups (scan_found: whether that finds the user).
handle_user_action(args, reply_sender, is_group, known, scan_found) ==
    IF args = <<>> /\ reply_sender = NoUid THEN [kind |-> "help", uid |-> NoUid]
    ELSE IF ~is_group THEN [kind |-> "not_group", uid |-> NoUid]
    ELSE LET target == get_target_user(args, reply_sender, known) IN
         IF target.uid = NoUid THEN [kind |-> "no_user", uid |-> NoUid]
         ELSE IF args # <<>> /\ isdigit(lstrip_minus(args[1]))
                 /\ target.user = NoUid /\ target.uid > 0
                 /\ (get_managed_groups(TRUE) = <<>> \/ ~scan_found)
         THEN [kind |-> "unresolved", uid |-> NoUid]
         ELSE [kind |-> "ok", uid |-> target.uid]

\* is_admin and check_permissions ask GetParticipantRequest and answer False
\* when the request raises.
is_admin(chat_id, user_id, probe_ok) == probe_ok /\ <<chat_id, user_id>> \in abAdmins
check_permissions(chat_id, probe_ok) == probe_ok /\ chat_id \in abRights

\* One EditBannedRequest: restrict tells a ban or mute from the request that
\* lifts one; minutes is 0 unless the request is a mute.
Request(command, chat_id, user_id, restrict, minutes) ==
    [command |-> command, chat |-> chat_id, uid |-> user_id,
     restrict |-> restrict, minutes |-> minutes]

Answer(kind, command, args, reply_sender) ==
    [kind |-> kind, command |-> command, args |-> args,
     reply_sender |-> reply_sender]

\* The commands of one chat.  checks_admin: kick, ban and mute ask is_admin;
\* unban and unmute do not.
moderate(command, checks_admin, reqs, args, reply_sender, is_group, known, scan_found, admin_probe_ok, rights_probe_ok, extras) ==
    /\ abOps < MaxAbOps
    /\ abOps' = abOps + 1
    /\ LET target == handle_user_action(args, reply_sender, is_group, known,
                                        scan_found)
           answer(kind) == Answer(kind, command, args, reply_sender) @@ extras
       IN IF target.kind # "ok"
          THEN requests' = {} /\ abReply' = answer(target.kind)
          ELSE IF checks_admin /\ is_admin(Here, target.uid, admin_probe_ok)
          THEN requests' = {} /\ abReply' = answer("is_admin")
          ELSE IF ~check_permissions(Here, rights_probe_ok)
          THEN requests' = {} /\ abReply' = answer("no_rights")
          ELSE /\ requests' = {Request(command, Here, target.uid, r.restrict,
                                       r.minutes) : r \in reqs}
               /\ abReply' = answer("done")
    /\ UNCHANGED <<abAdmins, abRights>>
    /\ UNCHANGED <<shiftVars, dlVars, bfVars, cmVars, restVars>>

Restricting == {[restrict |-> TRUE, minutes |-> 0]}
Lifting == {[restrict |-> FALSE, minutes |-> 0]}

\* kick: a ban request and then the request that lifts it.  ban_success and
\* unban_success are what the two safe_ban_action calls return; the handler
\* does not look at either.
kick_user(args, reply_sender, is_group, known, scan_found, admin_probe_ok, rights_probe_ok, ban_success, unban_success) ==
    moderate("kick", TRUE, Restricting \cup Lifting, args, reply_sender,
             is_group, known, scan_found, admin_probe_ok, rights_probe_ok,
             [ban_success |-> ban_success, unban_success |-> unban_success])

ban_user(args, reply_sender, is_group, known, scan_found, admin_probe_ok, rights_probe_ok) ==
    moderate("ban", TRUE, Restricting, args, reply_sender, is_group, known,
             scan_found, admin_probe_ok, rights_probe_ok, <<>>)

unban_user(args, reply_sender, is_group, known, scan_found, rights_probe_ok) ==
    moderate("unban", FALSE, Lifting, args, reply_sender, is_group, known,
             scan_found, TRUE, rights_probe_ok, <<>>)

unmute_user(args, reply_sender, is_group, known, scan_found, rights_probe_ok) ==
    moderate("unmute", FALSE, Lifting, args, reply_sender, is_group, known,
             scan_found, TRUE, rights_probe_ok, <<>>)

Min(a, b) == IF a <= b THEN a ELSE b
Max(a, b) == IF a >= b THEN a ELSE b

\* The duration of a mute: args[1] when it is a number, clamped; a second
\* argument that is not a number is the first word of the reason, and the
\* duration stays the default.
mute_minutes(args) ==
    IF Len(args) > 1 /\ isdigit(args[2])
    THEN Max(MinMinutes, Min(int(args[2]), MaxMinutes))
    ELSE DefaultMinutes

mute_user(args, reply_sender, is_group, known, scan_found, admin_probe_ok, rights_probe_ok) ==
    moderate("mute", TRUE,
             {[restrict |-> TRUE, minutes |-> mute_minutes(args)]},
             args, reply_sender, is_group, known, scan_found, admin_probe_ok,
             rights_probe_ok, ("minutes" :> mute_minutes(args)))

\* batch_ban_operation over the groups, BATCH_SIZE at a time: safe_ban_action
\* fails in the groups of fails.  The result is the number of successes, the
\* number of failures and the titles of the failing groups.
RECURSIVE batch_ban_operation(_, _, _)
batch_ban_operation(groups, fails, sofar) ==
    IF groups = <<>> THEN sofar
    ELSE LET size == Min(BATCH_SIZE, Len(groups))
             batch == SubSeq(groups, 1, size)
             failing == SelectSeq(batch, LAMBDA g : g \in fails)
         IN batch_ban_operation(
                SubSeq(groups, size + 1, Len(groups)), fails,
                [success |-> sofar.success + (size - Len(failing)),
                 failed |-> sofar.failed + Len(failing),
                 failed_groups |-> sofar.failed_groups \o failing])

\* The failed-groups line of the report: written when there are failing
\* titles and no more than three of them.
listed_titles(failed_groups) ==
    IF failed_groups # <<>> /\ Len(failed_groups) <= TitleLimit
    THEN SubSeq(failed_groups, 1, Min(TitleLimit, Len(failed_groups)))
    ELSE <<>>

\* sb and unsb: the request goes to every managed group; neither asks
\* is_admin or check_permissions.
batch_command(command, restrict, args, reply_sender, is_group, known, scan_found, dialogs_ok, fails) ==
    /\ abOps < MaxAbOps
    /\ abOps' = abOps + 1
    /\ LET target == handle_user_action(args, reply_sender, is_group, known,
                                        scan_found)
           groups == get_managed_groups(dialogs_ok)
           result == batch_ban_operation(groups, fails,
                        [success |-> 0, failed |-> 0, failed_groups |-> <<>>])
           answer(kind) == Answer(kind, command, args, reply_sender)
       IN IF target.kind # "ok"
          THEN requests' = {} /\ abReply' = answer(target.kind)
          ELSE IF groups = <<>>
          THEN requests' = {} /\ abReply' = answer("no_groups")
          ELSE /\ requests' = {Request(command, groups[i], target.uid, restrict, 0) :
                                  i \in DOMAIN groups}
               /\ abReply' = answer("batch") @@
                      [groups |-> groups, fails |-> fails,
                       success |-> result.success, failed |-> result.failed,
                       listed |-> listed_titles(result.failed_groups)]
    /\ UNCHANGED <<abAdmins, abRights>>
    /\ UNCHANGED <<shiftVars, dlVars, bfVars, cmVars, restVars>>

super_ban(args, reply_sender, is_group, known, scan_found, dialogs_ok, fails) ==
    batch_command("sb", TRUE, args, reply_sender, is_group, known, scan_found,
                  dialogs_ok, fails)

super_unban(args, reply_sender, is_group, known, scan_found, dialogs_ok, fails) ==
    batch_command("unsb", FALSE, args, reply_sender, is_group, known,
                  scan_found, dialogs_ok, fails)

\* The arguments tried: no argument, a handle, an id, a bare name; for mute a
\* second argument as well.
TargetTokens == {<<"@", "a">>, <<"8">>, <<"b", "o", "b">>}
MinuteTokens == {<<"0">>, <<"9", "0">>, <<"5", "0", "0", "0">>, <<"x">>}
CommandArgs == {<<>>} \cup {<<t>> : t \in TargetTokens}
MuteArgs == CommandArgs \cup {<<<<"@", "a">>, m>> : m \in MinuteTokens}
ReplySenders == {NoUid, 8}
\* the groups where safe_ban_action is made to fail
FailChoices == {{}, {2}, {1, BATCH_SIZE + 1}, {2, 3, BATCH_SIZE + 2},
                {1, 2, 3, BATCH_SIZE + 1}, {2, 3, BATCH_SIZE + 1, BATCH_SIZE + 2}}

(***************************************************************************)
(* aban: safe_ban_action                                                   *)
(* The call is given what each request it may send does: direct, by_entity,*)
(* by_channel and by_peer tell whether the EditBannedRequest of methods 1  *)
(* to 4 goes through; entity is what safe_get_entity returns, which never  *)
(* raises and is cached for an hour; participant is what                   *)
(* GetParticipantRequest returns for method 3.                             *)
(***************************************************************************)
SafeBanInputs ==
    [direct : BOOLEAN, entity : {"none", "plain", "hashed"},
     by_entity : BOOLEAN, participant : {"raises", "user", "channel"},
     by_channel : BOOLEAN, by_peer : BOOLEAN]

\* what a call did: the methods it attempted in order, and the method whose
\* request went through (0 when none did)
Attempted(attempts, applied) == [attempts |-> attempts, applied |-> applied]

\* methods 3 and 4, the except branch of method 2
after_entity_raised(o) ==
    IF o.participant = "channel" /\ o.by_channel
    THEN Attempted(<<1, 2, 3>>, 3)
    ELSE IF o.entity = "hashed" /\ o.by_peer
    THEN Attempted(<<1, 2, 3, 4>>, 4)
    ELSE Attempted(<<1, 2, 3, 4>>, 0)

\* safe_ban_action(client, chat_id, user_id, rights): methods 3 and 4 are
\* in the except branch of method 2, which is entered only when the
\* EditBannedRequest with the entity raises
safe_ban_action(o) ==
    IF o.direct THEN Attempted(<<1>>, 1)
    ELSE IF o.entity = "none" THEN Attempted(<<1, 2>>, 0)
    ELSE IF o.by_entity THEN Attempted(<<1, 2>>, 2)
    ELSE after_entity_raised(o)

\* one call: the attempts and the value returned (ban_success)
call_safe_ban_action ==
    /\ fnOutput = None
    /\ LET did == safe_ban_action(fnInput)
       IN fnOutput' = [kind |-> "returned", attempts |-> did.attempts,
                       applied |-> did.applied, value |-> did.applied # 0]
    /\ UNCHANGED fnInput
    /\ UNCHANGED <<shiftVars, dlVars, bfVars, cmVars, abVars, tgVars, gmVars, moreVars>>

(***************************************************************************)
(* aban: refresh, preload, cache                                           *)
(* get_managed_groups is decorated with @cache(ttl=timedelta(hours=1)):    *)
(* a call returns the stored value while it is younger than the ttl and    *)
(* runs the function, storing what it returns, otherwise.                  *)
(***************************************************************************)
\* Bound on the number of refresh / preload / cache commands.
MaxRfOps == 3
\* Bound on the time, in hours.
MaxRfNow == 2
\* ttl of the managed-groups cache, in hours
ManagedTtlHours == 1

\* whether the cache holds a value that has not expired
cache_hit == managed # None /\ rfNow < managed.expire

\* get_managed_groups(client) through its @cache decorator
cached_get_managed_groups(dialogs_ok) ==
    IF cache_hit
    THEN [probed |-> FALSE, value |-> managed.value]
    ELSE [probed |-> TRUE, value |-> get_managed_groups(dialogs_ok)]

RfOthers == <<shiftVars, dlVars, bfVars, cmVars, fnVars, tgVars, gmVars, crVars, pbVars>>

\* the body refresh, preload and cache share: one call of
\* get_managed_groups, and an answer with the number of groups
groups_command(kind, dialogs_ok) ==
    /\ rfOps < MaxRfOps
    /\ rfOps' = rfOps + 1
    /\ LET groups == cached_get_managed_groups(dialogs_ok)
       IN /\ managed' = IF groups.probed
                        THEN [value |-> groups.value,
                              expire |-> rfNow + ManagedTtlHours]
                        ELSE managed
          /\ rfLast' = [kind |-> kind, probed |-> groups.probed,
                        groups |-> groups.value]
    /\ UNCHANGED <<rfNow, abVars>>
    /\ UNCHANGED RfOthers

refresh_cache(dialogs_ok) == groups_command("refresh", dialogs_ok)
preload_cache(dialogs_ok) == groups_command("preload", dialogs_ok)
cache_status(dialogs_ok) == groups_command("cache", dialogs_ok)

\* the account is given or loses the right to ban in a chat
rights_change(chat_id) ==
    /\ abRights' = IF chat_id \in abRights THEN abRights \ {chat_id}
                   ELSE abRights \cup {chat_id}
    /\ UNCHANGED <<abAdmins, requests, abReply, abOps>>
    /\ UNCHANGED rfVars
    /\ UNCHANGED RfOthers

rf_time_passes ==
    /\ rfNow < MaxRfNow
    /\ rfNow' = rfNow + 1
    /\ UNCHANGED <<managed, rfLast, rfOps, abVars>>
    /\ UNCHANGED RfOthers


(***************************************************************************)
(* aban: _resolve_user_across_groups_by_id                                 *)
(* One probe task per managed group.  The tasks run the same code, so the  *)
(* state holds how many of them are at each position: waiting for the      *)
(* semaphore, inside GetParticipantRequest, inside iter_participants, or   *)
(* done.  The call itself polls until done_event is set or every task is   *)
(* done, cancels the tasks that are left when the event is set, gathers    *)
(* them, and returns found_user['val'].                                    *)
(***************************************************************************)
\* Bound on the number of managed groups.
MaxGroups == 10
\* the semaphore's size
PARALLEL_LIMIT == 8
\* the id the call is asked for, and another user a lookup may return
RequestedUid == 8
OtherUid == 7
\* what a lookup returns: the users of its result
LookupResults == {{}, {RequestedUid}, {OtherUid}, {OtherUid, RequestedUid}}

\* the probes that hold the semaphore
in_flight == probes.participant + probes.scan

move(from, to) ==
    [probes EXCEPT ![from] = @ - 1, ![to] = @ + 1]

\* the loops over the users a lookup returned, keeping any user
first_user(users) ==
    IF users = {} THEN NoUid ELSE CHOOSE u \in users : \A v \in users : u <= v

\* the loops over the users a lookup returned: the one whose id is uid
matching_user(users) ==
    IF RequestedUid \in users THEN RequestedUid ELSE NoUid

PbOthers == <<shiftVars, dlVars, bfVars, cmVars, abVars, fnVars, tgVars, gmVars, crVars, rfVars>>

\* `async with semaphore`, then the first test of done_event: a probe that
\* gets a slot when the event is set returns at once
acquire ==
    /\ resolver = "polling"
    /\ probes.waiting > 0
    /\ in_flight < PARALLEL_LIMIT
    /\ probes' = IF done_event THEN move("waiting", "done")
                 ELSE move("waiting", "participant")
    /\ UNCHANGED <<found_user, done_event, hits, resolver, resolved>>
    /\ UNCHANGED PbOthers

\* GetParticipantRequest(group_id, uid) returns users or raises; without
\* the requested user in the result, and with the event still unset, the
\* probe goes on to the member scan
participant_returns(raises, users) ==
    /\ resolver = "polling"
    /\ probes.participant > 0
    /\ LET u == IF raises THEN NoUid ELSE matching_user(users) IN
       IF u # NoUid
       THEN /\ found_user' = u
            /\ done_event' = TRUE
            /\ hits' = hits + (IF u = RequestedUid THEN 1 ELSE 0)
            /\ probes' = move("participant", "done")
       ELSE /\ probes' = IF done_event THEN move("participant", "done")
                         ELSE move("participant", "scan")
            /\ UNCHANGED <<found_user, done_event, hits>>
    /\ UNCHANGED <<resolver, resolved>>
    /\ UNCHANGED PbOthers

\* iter_participants(group_id, limit=per_limit) ends, raises, or yields the
\* requested user
scan_returns(raises, users) ==
    /\ resolver = "polling"
    /\ probes.scan > 0
    /\ LET u == IF raises THEN NoUid ELSE matching_user(users) IN
       IF u # NoUid
       THEN /\ found_user' = u
            /\ done_event' = TRUE
            /\ hits' = hits + (IF u = RequestedUid THEN 1 ELSE 0)
       ELSE UNCHANGED <<found_user, done_event, hits>>
    /\ probes' = move("scan", "done")
    /\ UNCHANGED <<resolver, resolved>>
    /\ UNCHANGED PbOthers

\* the call: one task per group is created
resolve_user_across_groups_by_id(n) ==
    /\ resolver = "idle"
    /\ probes' = [waiting |-> n, participant |-> 0, scan |-> 0, done |-> 0]
    /\ resolver' = "polling"
    /\ UNCHANGED <<found_user, done_event, hits, resolved>>
    /\ UNCHANGED PbOthers

\* the polling loop ends when the event is set or no task is left; in
\* `finally`, with the event set, the tasks that are not done are cancelled;
\* the tasks are gathered and found_user['val'] is returned.  Nothing is
\* awaited between the loop's test and the cancellation.
poll_cancel_gather ==
    /\ resolver = "polling"
    /\ done_event \/ probes.waiting + in_flight = 0
    /\ probes' = [waiting |-> 0, participant |-> 0, scan |-> 0,
                  done |-> probes.waiting + in_flight + probes.done]
    /\ resolver' = "returned"
    /\ resolved' = [kind |-> "returned", value |-> found_user]
    /\ UNCHANGED <<found_user, done_event, hits>>
    /\ UNCHANGED PbOthers

(***************************************************************************)
(* bf: the backup destinations (`bf set`, `bf del`)                        *)
(***************************************************************************)
\* Bound on the number of `bf set` / `bf del` commands in one behaviour.
MaxTgOps == 3
\* Bound on the number of words after `bf set`.
MaxSetWords == 2

\* the words a command line is split into: they hold no blank, so
\* str(i).strip() leaves them as they are and none is empty
TgWords == {"1", "2", "3", "-100", "@x", "all"}

\* re.fullmatch(r"-?\d+", seg)
fullmatch_id == [seg \in TgWords |-> seg \in {"1", "2", "3", "-100"}]

\* the loop of get_target_chat_ids: the first occurrence of every id is kept
RECURSIVE uniq(_, _)
uniq(ids, out) ==
    IF ids = <<>> THEN out
    ELSE uniq(Tail(ids), IF Head(ids) \in Range(out) THEN out
                         ELSE Append(out, Head(ids)))

\* get_target_chat_ids: the stored list, without repeats
get_target_chat_ids == uniq(target_chat_ids, <<>>)

\* the loop of add_target_chat_ids without the membership test
RECURSIVE add_each_appending(_, _)
add_each_appending(exist, ids_to_add) ==
    IF ids_to_add = <<>> THEN exist
    ELSE add_each_appending(Append(exist, Head(ids_to_add)), Tail(ids_to_add))

\* the loop of add_target_chat_ids: an id that is not in the list yet is
\* appended
RECURSIVE add_each(_, _)
add_each(exist, ids_to_add) ==
    IF ids_to_add = <<>> THEN exist
    ELSE add_each(IF Head(ids_to_add) \in Range(exist) THEN exist
                  ELSE Append(exist, Head(ids_to_add)),
                  Tail(ids_to_add))

\* add_target_chat_ids: what is stored and returned
add_target_chat_ids(ids_to_add) == add_each(get_target_chat_ids, ids_to_add)

\* remove_target_chat_id: what is stored and returned
remove_target_chat_id(id_to_remove) ==
    IF id_to_remove = "all" THEN <<>>
    ELSE SelectSeq(get_target_chat_ids, LAMBDA i : i # id_to_remove)

TgCommand(op, words, stored) ==
    [kind |-> "bf", op |-> op, words |-> words, before |-> target_chat_ids,
     stored |-> stored]

\* `bf set <ID...>`: a word that is not a number refuses the whole command
bf_set(parts) ==
    /\ tgOps < MaxTgOps
    /\ tgOps' = tgOps + 1
    /\ IF \E i \in DOMAIN parts : ~fullmatch_id[parts[i]]
       THEN /\ UNCHANGED target_chat_ids
            /\ tgLast' = TgCommand("set", parts, FALSE)
       ELSE /\ target_chat_ids' = add_target_chat_ids(parts)
            /\ tgLast' = TgCommand("set", parts, TRUE)
    /\ UNCHANGED <<shiftVars, dlVars, bfVars, cmVars, abVars, fnVars, gmVars, moreVars>>

\* `bf del <ID|all>`
bf_del(target) ==
    /\ tgOps < MaxTgOps
    /\ tgOps' = tgOps + 1
    /\ target_chat_ids' = remove_target_chat_id(target)
    /\ tgLast' = TgCommand("del", <<target>>, TRUE)
    /\ UNCHANGED <<shiftVars, dlVars, bfVars, cmVars, abVars, fnVars, gmVars, moreVars>>

(***************************************************************************)
(* bf: the cron matcher                                                    *)
(* A field is kept as the pieces its text splits into: "*", "*/n", or the  *)
(* comma-separated parts, each a value, a range a-b, or one of these or    *)
(* "*" with a step.  A piece that int() refuses makes the field "bad".     *)
(***************************************************************************)
Star == [kind |-> "*"]
StarStep(n) == [kind |-> "*/n", step |-> n]
Value(v) == [kind |-> "v", a |-> v]
Span(a, b) == [kind |-> "a-b", a |-> a, b |-> b]
SpanStep(a, b, n) == [kind |-> "a-b/n", a |-> a, b |-> b, step |-> n]
ValueStep(v, n) == [kind |-> "v/n", a |-> v, step |-> n]
StarStepPart(n) == [kind |-> "*/n", step |-> n]
List(parts) == [kind |-> "list", parts |-> parts]
Bad == [kind |-> "bad"]

\* add_range(a, b, step): range(max(min_v, a), min(max_v, b) + 1, step), a
\* step of 0 or less counting as 1
add_range(min_v, max_v, a, b, step) ==
    LET lo == Max(min_v, a)
        hi == Min(max_v, b)
        st == IF step <= 0 THEN 1 ELSE step
    IN {v \in lo..hi : (v - lo) % st = 0}

\* what one comma-separated part adds to values
part_values(part, min_v, max_v) ==
    CASE part.kind = "*/n" -> add_range(min_v, max_v, min_v, max_v, part.step)
      [] part.kind = "a-b/n" -> add_range(min_v, max_v, part.a, part.b, part.step)
      [] part.kind = "v/n" -> {part.a}
      [] part.kind = "a-b" -> add_range(min_v, max_v, part.a, part.b, 1)
      [] part.kind = "v" -> {part.a}

\* _parse_cron_field(field, min_v, max_v): the set of allowed values
parse_cron_field(field, min_v, max_v) ==
    CASE field.kind = "*" -> min_v..max_v
      [] field.kind = "*/n" -> add_range(min_v, max_v, min_v, max_v, field.step)
      [] field.kind = "list" ->
            {v \in UNION {part_values(field.parts[i], min_v, max_v) :
                            i \in DOMAIN field.parts} : min_v <= v /\ v <= max_v}

\* whether _parse_cron_field raises: int() on a piece that is not a number
parse_raises(field) == field.kind = "bad"

\* now.weekday() counts from Monday = 0; cron counts from Sunday = 0
cron_dow_unconverted(weekday) == weekday

cron_dow(weekday) == (weekday + 1) % 7

\* day-of-month and day-of-week always combined with AND
day_ok_conjunction(dom_set, dow_set, dom_match, dow_match) == dom_match /\ dow_match

\* how _cron_matches combines the two day fields
day_ok(dom_set, dow_set, dom_match, dow_match) ==
    IF dom_set # 1..31 /\ dow_set # 0..6
    THEN dom_match \/ dow_match
    ELSE dom_match /\ dow_match

\* _cron_matches(now, expr); fields is expr.split()
cron_matches(t, fields) ==
    IF Len(fields) # 5 THEN FALSE
    ELSE IF \E i \in 1..5 : parse_raises(fields[i]) THEN FALSE
    ELSE LET m_set == parse_cron_field(fields[1], 0, 59)
             h_set == parse_cron_field(fields[2], 0, 23)
             dom_set == parse_cron_field(fields[3], 1, 31)
             mon_set == parse_cron_field(fields[4], 1, 12)
             dow_set == parse_cron_field(fields[5], 0, 6)
         IN /\ t.minute \in m_set
            /\ t.hour \in h_set
            /\ t.month \in mon_set
            /\ day_ok(dom_set, dow_set, t.day \in dom_set,
                      cron_dow(t.weekday) \in dow_set)

\* The instants and the expressions the matcher is applied to.
Instants ==
    [minute : {0, 5, 7, 10}, hour : {0, 2}, day : {1, 2, 15}, month : {1, 6},
     weekday : 0..6]

Every5Minutes == <<StarStep(5), Star, Star, Star, Star>>
Weekdays2am == <<List(<<Value(0)>>), List(<<Value(2)>>), Star, Star, List(<<Span(1, 5)>>)>>
FirstOfMonth == <<List(<<Value(10)>>), List(<<Value(0)>>), List(<<Value(1)>>), Star, Star>>

CronExprs ==
    {Every5Minutes, Weekdays2am, FirstOfMonth,
     <<Star, Star, Star, Star, Star>>,
     \* 0 0 1,15 * 0
     <<List(<<Value(0)>>), List(<<Value(0)>>), List(<<Value(1), Value(15)>>), Star, List(<<Value(0)>>)>>,
     \* 0 0 1-31 * 1
     <<List(<<Value(0)>>), List(<<Value(0)>>), List(<<Span(1, 31)>>), Star, List(<<Value(1)>>)>>,
     \* 0-10/5 */2 2-40 6 *
     <<List(<<SpanStep(0, 10, 5)>>), StarStep(2), List(<<Span(2, 40)>>), List(<<Value(6)>>), Star>>,
     \* 7,*/10 * * * 7
     <<List(<<Value(7), StarStepPart(10)>>), Star, Star, Star, List(<<Value(7)>>)>>,
     \* 5/15 2 * 1 */0
     <<List(<<ValueStep(5, 15)>>), List(<<Value(2)>>), Star, List(<<Value(1)>>), StarStep(0)>>,
     \* x * * * *
     <<Bad, Star, Star, Star, Star>>,
     \* * * * *
     <<Star, Star, Star, Star>>}

Returned(value) == [kind |-> "returned", value |-> value]

call_cron_matches ==
    /\ fnInput.kind = "cron"
    /\ fnOutput = None
    /\ fnOutput' = Returned(cron_matches(fnInput.now, fnInput.expr))
    /\ UNCHANGED fnInput
    /\ UNCHANGED <<shiftVars, dlVars, bfVars, cmVars, abVars, tgVars, gmVars, moreVars>>

(***************************************************************************)
(* bf cron: the scheduler job                                              *)
(* cron_expr is the expression data/bf_config.json holds, as its fields;   *)
(* the empty sequence stands for a configuration without the key.          *)
(***************************************************************************)
\* Bound on the number of `bf cron` commands and hook runs in one behaviour.
MaxCrOps == 3

\* whether the five fields of an expression parse
cron_matches_parses(fields) ==
    Len(fields) = 5 /\ \A i \in 1..5 : ~parse_raises(fields[i])

\* get_cron_expr(): None unless the configuration holds a non-empty string
get_cron_expr == cron_expr

\* the hook without the get_job test: adds the job whenever an expression
\* is set
restart_cron_task_adding(expr, registered) ==
    IF expr # <<>> THEN registered + 1 ELSE 0

\* _restart_cron_task(): the number of bf_cron_task jobs afterwards
restart_cron_task(expr, registered) ==
    IF expr # <<>> /\ registered = 0 THEN registered + 1
    ELSE IF expr = <<>> /\ registered # 0 THEN registered - 1
    ELSE registered

CrOthers == <<shiftVars, dlVars, bfVars, cmVars, abVars, fnVars, tgVars, gmVars, rfVars, pbVars>>

\* the hook Hook.load_success runs when the plugins are loaded
load_success ==
    /\ crOps < MaxCrOps
    /\ crOps' = crOps + 1
    /\ jobs' = restart_cron_task(get_cron_expr, jobs)
    /\ crLast' = [kind |-> "hook"]
    /\ UNCHANGED cron_expr
    /\ UNCHANGED CrOthers

\* `bf cron off`
bf_cron_off ==
    /\ crOps < MaxCrOps
    /\ crOps' = crOps + 1
    /\ cron_expr' = <<>>
    /\ jobs' = restart_cron_task(<<>>, jobs)
    /\ crLast' = [kind |-> "off"]
    /\ UNCHANGED CrOthers

\* `bf cron <expr>`: an expression of five fields that parse is stored
bf_cron(fields) ==
    /\ crOps < MaxCrOps
    /\ crOps' = crOps + 1
    /\ IF Len(fields) # 5
       THEN /\ crLast' = [kind |-> "not_five_fields"]
            /\ UNCHANGED <<cron_expr, jobs>>
       ELSE IF \E i \in 1..5 : parse_raises(fields[i])
       THEN /\ crLast' = [kind |-> "parse_failed"]
            /\ UNCHANGED <<cron_expr, jobs>>
       ELSE /\ cron_expr' = fields
            /\ jobs' = restart_cron_task(fields, jobs)
            /\ crLast' = [kind |-> "set"]
    /\ UNCHANGED CrOthers

(***************************************************************************)
(* bf: a standard backup that is extracted again                           *)
(***************************************************************************)
\* The files the data and plugins trees are made of, and what a file holds.
TreeFiles ==
    {<<"data", "a.json">>, <<"data", "cache", "c.bin">>,
     <<"data", "pagermaid.session">>, <<"data", "pagermaid.session-journal">>,
     <<"plugins", "p.py">>, <<"plugins", "__pycache__", "c.bin">>}
Contents == {"x", "y"}

\* the orders in which _add_tree can add the members: plugins before data,
\* and inside a tree in the order os.walk lists the files
AddOrders(names) ==
    {ar \in [1..Cardinality(names) -> names] :
        /\ \A i \in DOMAIN ar, j \in DOMAIN ar : ar[i] = ar[j] => i = j
        /\ \A i \in DOMAIN ar, j \in DOMAIN ar :
              (ar[i][2] = "plugins" /\ ar[j][2] = "data") => i < j}

\* create_data_plugins_backup(output_filename) writes the archive: the
\* names of the members and, with tar.add, what each file holds
write_backup_archive ==
    /\ fnInput = None
    /\ \E ar \in AddOrders(create_data_plugins_backup(TRUE)) :
          fnInput' = [kind |-> "archive",
                      members |-> [i \in DOMAIN ar |-> Rel(ar[i])],
                      content |-> [i \in DOMAIN ar |-> live[Strip(ar[i], 1)]]]
    /\ UNCHANGED fnOutput
    /\ UNCHANGED <<shiftVars, dlVars, bfVars, cmVars, abVars, tgVars, gmVars, moreVars>>

\* un_tar_gz(filename, dirs) on that archive: the files below the
\* extraction directory afterwards
extract_backup_archive ==
    /\ fnInput # None
    /\ fnOutput = None
    /\ LET ex == un_tar_gz(fnInput.members)
           at(p) == CHOOSE i \in DOMAIN fnInput.members :
                       /\ extracted_path(fnInput.members[i]) = p
                       /\ \A j \in DOMAIN fnInput.members :
                             extracted_path(fnInput.members[j]) = p => j <= i
       IN fnOutput' = [kind |-> "extracted", ok |-> ex.ok,
                       files |-> [p \in ex.written |-> fnInput.content[at(p)]]]
    /\ UNCHANGED fnInput
    /\ UNCHANGED <<shiftVars, dlVars, bfVars, cmVars, abVars, tgVars, gmVars, moreVars>>

(***************************************************************************)
(* gemini                                                                  *)
(* A command that asks the provider runs in two steps: up to the await of  *)
(* the call, and from the provider's answer to the end of the handler.     *)
(* Other commands run in between.                                          *)
(***************************************************************************)
\* Bound on the number of gemini commands in one behaviour.
MaxGmOps == 2
\* Bound on the number of requests in flight at the same time.
MaxInFlight == 2

GmInvocations == 1..MaxInFlight

\* args or the text of the replied-to message; "" when there is none
PromptTexts == {"", "hi"}
\* the text of a response; PyNone is response.text of a response that
\* holds no text part
PyNone == "None"
ReplyTexts == {"re"}
\* a downloaded photo or file of the message
MediaPart == "media"

\* len() of the strings _build_response_message puts together
PromptHeaderLen == 5
ResponseHeaderLen == 5
PoweredByLen == 17
PoweredBySearchLen == 36
\* above this length message.edit raises MessageTooLongError
MessageCeiling == 4096
\* count_tokens above which _call_gemini_tts_api refuses the text
TokenLimit == 1500

len == [t \in PromptTexts |-> IF t = "" THEN 0 ELSE 2]
ReplyLengths == {10, 100, 5000}
TokenCounts == {TokenLimit, TokenLimit + 1}
LimitChoices == {0, 50, 4500}

GmRequests == {"chat", "search", "_audio", "search_audio"}
use_search(cmd) == cmd \in {"search", "search_audio"}
is_audio(cmd) == cmd \in {"_audio", "search_audio"}

\* _get_full_content: the text first, then the media part
get_full_content(prompt, media) ==
    (IF prompt # "" THEN <<prompt>> ELSE <<>>) \o (IF media THEN <<MediaPart>> ELSE <<>>)

\* len(final_text) of _build_response_message
build_response_message_len(prompt_text, reply_len, searching) ==
    (IF prompt_text # "" THEN PromptHeaderLen + len[prompt_text] + 1 ELSE 0)
    + ResponseHeaderLen + reply_len + 1
    + (IF searching THEN PoweredBySearchLen ELSE PoweredByLen)

\* _post_to_telegraph_and_reply: the link when the page was created, the
\* error otherwise
post_to_telegraph_and_reply(publish_ok) ==
    [delivery |-> IF publish_ok THEN "link" ELSE "error", publish_tried |-> TRUE,
     published |-> publish_ok]

\* _send_response that publishes only when the platform refuses the text
send_response_inline_first(final_len, publish_ok) ==
    IF final_len > MessageCeiling
    THEN IF telegraph_enabled THEN post_to_telegraph_and_reply(publish_ok)
         ELSE [delivery |-> "error", publish_tried |-> FALSE, published |-> FALSE]
    ELSE [delivery |-> "inline", publish_tried |-> FALSE, published |-> FALSE]

\* _send_response: how the assembled text of length final_len is delivered
send_response(final_len, publish_ok) ==
    IF telegraph_enabled /\ telegraph_limit > 0 /\ final_len > telegraph_limit
    THEN post_to_telegraph_and_reply(publish_ok)
    ELSE IF final_len > MessageCeiling
    THEN IF telegraph_enabled THEN post_to_telegraph_and_reply(publish_ok)
         ELSE [delivery |-> "error", publish_tried |-> FALSE, published |-> FALSE]
    ELSE [delivery |-> "inline", publish_tried |-> FALSE, published |-> FALSE]

\* _call_gemini_tts_api and _generate_and_send_audio on a text of the given
\* token count: whether generate_content_stream was called, whether a voice
\* note was sent, and the result (True, False, None, or the
\* TOKEN_LIMIT_EXCEEDED error that is raised to the caller)
TtsOutcomes ==
    {"empty_text", "count_fails", "synth_fails", "no_audio", "no_mime",
     "ffmpeg_fails", "sent"}

tts_without_limit(tokens, outcome) ==
    IF ~api_key \/ outcome \in {"empty_text", "count_fails"}
    THEN [counted |-> FALSE, synth |-> FALSE, voice |-> FALSE, result |-> "None"]
    ELSE IF outcome \in {"synth_fails", "no_audio"}
    THEN [counted |-> TRUE, synth |-> TRUE, voice |-> FALSE, result |-> "None"]
    ELSE IF outcome \in {"no_mime", "ffmpeg_fails"}
    THEN [counted |-> TRUE, synth |-> TRUE, voice |-> FALSE, result |-> "False"]
    ELSE [counted |-> TRUE, synth |-> TRUE, voice |-> TRUE, result |-> "True"]

generate_and_send_audio(tokens, outcome) ==
    IF ~api_key \/ outcome \in {"empty_text", "count_fails"}
    THEN [counted |-> FALSE, synth |-> FALSE, voice |-> FALSE, result |-> "None"]
    ELSE IF tokens > TokenLimit
    THEN [counted |-> TRUE, synth |-> FALSE, voice |-> FALSE,
          result |-> "TOKEN_LIMIT_EXCEEDED"]
    ELSE IF outcome \in {"synth_fails", "no_audio"}
    THEN [counted |-> TRUE, synth |-> TRUE, voice |-> FALSE, result |-> "None"]
    ELSE IF outcome \in {"no_mime", "ffmpeg_fails"}
    THEN [counted |-> TRUE, synth |-> TRUE, voice |-> FALSE, result |-> "False"]
    ELSE [counted |-> TRUE, synth |-> TRUE, voice |-> TRUE, result |-> "True"]

NoCall == [kind |-> "none"]
NoSend == [delivery |-> "none", publish_tried |-> FALSE, published |-> FALSE]
NoTts == [counted |-> FALSE, synth |-> FALSE, voice |-> FALSE, result |-> "none"]

\* what a handler that finished did
GmDone(cmd, outcome, before, final_len, tokens, tts, sent) ==
    [kind |-> "gemini", cmd |-> cmd, outcome |-> outcome, before |-> before,
     memory |-> context_enabled, final_len |-> final_len,
     enabled |-> telegraph_enabled, limit |-> telegraph_limit,
     tokens |-> tokens, tts |-> tts, sent |-> sent]

GmOthers == <<shiftVars, dlVars, bfVars, cmVars, abVars, fnVars, tgVars, moreVars>>

\* `gemini set_api_key [key]`: without a key the usage is shown
handle_set_api_key(args) ==
    /\ gmOps < MaxGmOps /\ gmOps' = gmOps + 1
    /\ api_key' = IF args = "" THEN api_key ELSE TRUE
    /\ gmLast' = GmDone("set_api_key", IF args = "" THEN "usage" ELSE "done",
                        history, 0, 0, NoTts, NoSend)
    /\ UNCHANGED <<history, context_enabled, telegraph_enabled, telegraph_limit,
                   telegraph_posts, calls>>
    /\ UNCHANGED GmOthers

\* `gemini context on|off`
context_toggle(is_on) ==
    /\ gmOps < MaxGmOps /\ gmOps' = gmOps + 1
    /\ context_enabled' = is_on
    /\ gmLast' = GmDone("context", "done", history, 0, 0, NoTts, NoSend)
    /\ UNCHANGED <<api_key, history, telegraph_enabled, telegraph_limit,
                   telegraph_posts, calls>>
    /\ UNCHANGED GmOthers

\* `gemini context clear`
context_clear ==
    /\ gmOps < MaxGmOps /\ gmOps' = gmOps + 1
    /\ history' = <<>>
    /\ gmLast' = GmDone("context clear", "done", history, 0, 0, NoTts, NoSend)
    /\ UNCHANGED <<api_key, context_enabled, telegraph_enabled, telegraph_limit,
                   telegraph_posts, calls>>
    /\ UNCHANGED GmOthers

\* `gemini telegraph on|off`
telegraph_toggle(is_on) ==
    /\ gmOps < MaxGmOps /\ gmOps' = gmOps + 1
    /\ telegraph_enabled' = is_on
    /\ gmLast' = GmDone("telegraph", "done", history, 0, 0, NoTts, NoSend)
    /\ UNCHANGED <<api_key, history, context_enabled, telegraph_limit,
                   telegraph_posts, calls>>
    /\ UNCHANGED GmOthers

\* `gemini telegraph limit [number]`: a negative number is refused
telegraph_set_limit(limit) ==
    /\ gmOps < MaxGmOps /\ gmOps' = gmOps + 1
    /\ telegraph_limit' = IF limit < 0 THEN telegraph_limit ELSE limit
    /\ gmLast' = GmDone("telegraph limit", IF limit < 0 THEN "error" ELSE "done",
                        history, 0, 0, NoTts, NoSend)
    /\ UNCHANGED <<api_key, history, context_enabled, telegraph_enabled,
                   telegraph_posts, calls>>
    /\ UNCHANGED GmOthers

\* the message carries no media, a photo or file, or a file over 19.5 MB
MediaChoices == {"none", "photo", "too_big"}

\* chat, search, _audio, search_audio up to the provider call:
\* _get_full_content, then _call_gemini_api until it awaits the executor
gemini_request(i, cmd, prompt, media) ==
    /\ gmOps < MaxGmOps /\ gmOps' = gmOps + 1
    /\ calls[i] = NoCall
    /\ LET contents == get_full_content(prompt, media = "photo")
           refused == IF media # "none" /\ context_enabled THEN "media_with_context"
                      ELSE IF media = "too_big" THEN "file_too_big"
                      ELSE IF contents = <<>> THEN "usage"
                      ELSE IF ~api_key THEN "no_api_key"
                      ELSE ""
       IN IF refused # ""
          THEN /\ gmLast' = GmDone(cmd, refused, history, 0, 0, NoTts, NoSend)
               /\ UNCHANGED calls
          ELSE /\ calls' = [calls EXCEPT ![i] =
                              [kind |-> "call", cmd |-> cmd, prompt |-> prompt,
                               contents |-> contents,
                               api_contents |->
                                  IF context_enabled /\ ~use_search(cmd)
                                  THEN history \o contents ELSE contents]]
               /\ UNCHANGED gmLast
    /\ UNCHANGED <<api_key, history, context_enabled, telegraph_enabled,
                   telegraph_limit, telegraph_posts>>
    /\ UNCHANGED GmOthers

\* the three lines of _call_gemini_api that store the turn
store_turn(contents, text) == history \o <<contents[1], text>>

\* the rest of the handler once generate_content has answered: response is
\* "raises", or response.text (PyNone when the response holds no text)
provider_returns(i, response, reply_len, tokens, outcome, publish_ok) ==
    /\ calls[i] # NoCall
    /\ calls' = [calls EXCEPT ![i] = NoCall]
    /\ LET c == calls[i]
           final_len == build_response_message_len(c.prompt, reply_len, use_search(c.cmd))
           tts == IF is_audio(c.cmd) THEN generate_and_send_audio(tokens, outcome)
                  ELSE NoTts
           sent == IF ~is_audio(c.cmd) \/ tts.result \in {"False", "TOKEN_LIMIT_EXCEEDED"}
                   THEN send_response(final_len, publish_ok)
                   ELSE NoSend
       IN IF response = "raises"
          THEN /\ gmLast' = GmDone(c.cmd, "api_error", history, 0, 0, NoTts, NoSend)
               /\ UNCHANGED <<history, telegraph_posts>>
          ELSE /\ history' = IF context_enabled /\ ~use_search(c.cmd)
                             THEN store_turn(c.contents, response)
                             ELSE history
               /\ IF response = PyNone
                  THEN /\ gmLast' = GmDone(c.cmd, "no_text", history, 0, 0, NoTts, NoSend)
                       /\ UNCHANGED telegraph_posts
                  ELSE /\ gmLast' = GmDone(c.cmd, "replied", history, final_len,
                                           IF is_audio(c.cmd) THEN tokens ELSE 0,
                                           tts, sent)
                       /\ telegraph_posts' = telegraph_posts + (IF sent.published THEN 1 ELSE 0)
    /\ UNCHANGED <<api_key, context_enabled, telegraph_enabled, telegraph_limit, gmOps>>
    /\ UNCHANGED GmOthers

\* `gemini tts [text]`
handle_tts(prompt, tokens, outcome) ==
    /\ gmOps < MaxGmOps /\ gmOps' = gmOps + 1
    /\ gmLast' = IF prompt = ""
                 THEN GmDone("tts", "usage", history, 0, 0, NoTts, NoSend)
                 ELSE GmDone("tts", "spoken", history, 0, tokens,
                             generate_and_send_audio(tokens, outcome), NoSend)
    /\ UNCHANGED <<api_key, history, context_enabled, telegraph_enabled,
                   telegraph_limit, telegraph_posts, calls>>
    /\ UNCHANGED GmOthers

(***************************************************************************)
(* shift: normalize_chat_id                                                *)
(*                                                                         *)
(* Ids go beyond 32 bits, so an integer is written sign and magnitude, the *)
(* magnitude in two base-1000000 digits: (-1)^neg * (hi * 1000000 + lo).   *)
(***************************************************************************)
Int64(neg, hi, lo) == [neg |-> neg /\ (hi # 0 \/ lo # 0), hi |-> hi, lo |-> lo]

IsPositive(n) == ~n.neg /\ (n.hi # 0 \/ n.lo # 0)
Negate(n) == Int64(~n.neg, n.hi, n.lo)
\* a > b, for a and b that are not negative
MagnitudeGreater(a, b) == a.hi > b.hi \/ (a.hi = b.hi /\ a.lo > b.lo)
\* a + b, for a and b that are not negative
AddMagnitudes(a, b) ==
    Int64(FALSE, a.hi + b.hi + ((a.lo + b.lo) \div 1000000),
          (a.lo + b.lo) % 1000000)

\* 1000000000000 and 1000000000
ChannelOffset == Int64(FALSE, 1000000, 0)
RawIdThreshold == Int64(FALSE, 1000, 0)

\* entity_or_id: a Channel, Chat or User entity with its id, or a bare id
EntityKinds == {"Channel", "Chat", "User", "id"}

normalize_chat_id(entity_or_id) ==
    LET chat_id == entity_or_id.id IN
    IF entity_or_id.kind = "Channel"
    THEN IF IsPositive(chat_id) THEN Negate(AddMagnitudes(ChannelOffset, chat_id))
         ELSE chat_id
    ELSE IF entity_or_id.kind = "Chat" /\ IsPositive(chat_id) THEN Negate(chat_id)
    ELSE IF entity_or_id.kind \in {"Chat", "User"} THEN chat_id
    ELSE IF IsPositive(chat_id) /\ MagnitudeGreater(chat_id, RawIdThreshold)
    THEN Negate(AddMagnitudes(ChannelOffset, chat_id))
    ELSE chat_id

\* The ids tried: 0, small ids, ids around 1000000000, a present-day user id
\* (5000000000), and ids already in the signed convention.
SampleIds ==
    {Int64(FALSE, 0, 0), Int64(FALSE, 0, 7), Int64(FALSE, 0, 50),
     Int64(FALSE, 0, 123), Int64(FALSE, 0, 999999), Int64(FALSE, 1, 0),
     Int64(FALSE, 999, 999999), Int64(FALSE, 1000, 0), Int64(FALSE, 1000, 1),
     Int64(FALSE, 5000, 0), Int64(TRUE, 0, 7), Int64(TRUE, 0, 50),
     Int64(TRUE, 1000, 1), Int64(TRUE, 1000000, 123),
     Int64(TRUE, 1005000, 0)}

call_normalize_chat_id ==
    /\ fnOutput = None
    /\ fnOutput' = normalize_chat_id(fnInput)
    /\ UNCHANGED fnInput
    /\ UNCHANGED <<shiftVars, dlVars, bfVars, cmVars, abVars, tgVars, gmVars, moreVars>>

(***************************************************************************)
(* Specifications: one per plugin                                          *)
(***************************************************************************)
\* Each plugin as it is when the process has started and no command of it
\* has run yet.
ShiftIdle ==
    /\ rules = <<>>
    /\ stats = <<>>
    /\ relay = NoRelay
    /\ reply = None
    /\ shiftOps = 0

DlIdle ==
    /\ busy = [p \in Plugins |-> FALSE]
    /\ pc = [i \in Invocations |-> "idle"]
    /\ workdir = {}
    /\ downloads = {}
    /\ ffmpeg = TRUE

BfIdle ==
    /\ live = [path \in BaseFiles |-> "old"]
    /\ uploadSessions = FALSE
    /\ hfConfirm = FALSE
    /\ staged = None
    /\ tmpFiles = {}
    /\ archives = {}
    /\ lastExtract = None
    /\ hfReply = None
    /\ bfOps = 0

CmIdle ==
    /\ members = CmUsers
    /\ admins = {1}
    /\ cache = <<>>
    /\ restricted = {}
    /\ now = 0
    /\ cmLast = NoRun
    /\ cmOps = 0

AbIdle ==
    /\ abAdmins = {}
    /\ abRights = {}
    /\ requests = {}
    /\ abReply = None
    /\ abOps = 0

FnIdle ==
    /\ fnInput = None
    /\ fnOutput = None

TgIdle ==
    /\ target_chat_ids = <<>>
    /\ tgLast = None
    /\ tgOps = 0

GmIdle ==
    /\ api_key = FALSE
    /\ history = <<>>
    /\ context_enabled = FALSE
    /\ telegraph_enabled = FALSE
    /\ telegraph_limit = 0
    /\ telegraph_posts = 0
    /\ calls = [i \in GmInvocations |-> NoCall]
    /\ gmLast = None
    /\ gmOps = 0

CrIdle ==
    /\ cron_expr = <<>>
    /\ jobs = 0
    /\ crLast = None
    /\ crOps = 0

RfIdle ==
    /\ managed = None
    /\ rfNow = 0
    /\ rfLast = None
    /\ rfOps = 0

PbIdle ==
    /\ probes = [waiting |-> 0, participant |-> 0, scan |-> 0, done |-> 0]
    /\ found_user = NoUid
    /\ done_event = FALSE
    /\ hits = 0
    /\ resolver = "returned"
    /\ resolved = None

MoreIdle == CrIdle /\ RfIdle /\ PbIdle

RestIdle == FnIdle /\ TgIdle /\ GmIdle /\ MoreIdle

InitShift == ShiftIdle /\ DlIdle /\ BfIdle /\ CmIdle /\ AbIdle /\ RestIdle

NextShift ==
    \/ \E source \in Peers, target \in Peers, options \in OptionChoices,
          noforwards \in BOOLEAN :
            shift_func_set(source, target, options, noforwards)
    \/ \E toks \in IndexLists : shift_func_del(toks)
    \/ \E toks \in IndexLists, pause \in BOOLEAN : toggle_pause_resume(toks, pause)
    \/ \E toks \in IndexLists, action \in FilterActions,
          keywords \in SUBSET Keywords :
            shift_func_filter(toks, action, keywords)
    \/ \E msg \in Messages : shift_channel_message(msg)

SpecShift == InitShift /\ [][NextShift]_vars

\* A relay whose rules were set one after the other along the chain chats:
\* chat i forwards to chat i + 1; every one of these `shift set` commands was
\* accepted, the rules being a path.  The last chain chat has no rule yet.
ChainRules ==
    [source \in {ChainChat(i) : i \in 1..MaxHops} |->
        [target_id |-> source - 1, options |-> {}, paused |-> FALSE,
         filters |-> {}]]

\* Messages arrive at the head of the chain, near its end and at its end.
ChainMessages ==
    [chat : {ChainChat(1), ChainChat(MaxHops - 1), ChainChat(MaxHops + 1)},
     text : {<<>>}, attrs : {{}}, noforwards : {FALSE}]

InitChain ==
    /\ DlIdle /\ BfIdle /\ CmIdle /\ AbIdle /\ RestIdle
    /\ rules = ChainRules
    /\ stats = <<>>
    /\ relay = NoRelay
    /\ reply = None
    /\ shiftOps = 0

\* `shift set` from the last chain chat to any chain chat, and messages
\* arriving in chain chats.
NextChain ==
    \/ \E target \in ChainChats :
          shift_func_set(ChainChat(MaxHops + 1), target, {}, FALSE)
    \/ \E msg \in ChainMessages : shift_channel_message(msg)

SpecChain == InitChain /\ [][NextChain]_vars

\* ffmpeg is installed or not when the process starts, and stays so.
InitDl ==
    /\ ShiftIdle /\ BfIdle /\ CmIdle /\ AbIdle /\ RestIdle
    /\ busy = [p \in Plugins |-> FALSE]
    /\ pc = [i \in Invocations |-> "idle"]
    /\ workdir = {}
    /\ downloads = {}
    /\ ffmpeg \in BOOLEAN

NextDl ==
    \/ \E i \in Invocations, mkdir_ok \in BOOLEAN : gallery_dl_common(i, mkdir_ok)
    \/ \E i \in Invocations, outcome \in Outcomes : gallery_dl_resume(i, outcome)
    \/ \E i \in Invocations, mkdir_ok \in BOOLEAN : ytdl_common(i, mkdir_ok)
    \/ \E i \in Invocations, outcome \in Outcomes : ytdl_resume(i, outcome)

SpecDl == InitDl /\ [][NextDl]_vars

\* The program directory holds the base files and any of the session files;
\* upload_sessions is whatever bf_config.json says.
InitBf ==
    /\ ShiftIdle /\ DlIdle /\ CmIdle /\ AbIdle /\ RestIdle
    /\ \E sessions \in SUBSET SessionFiles :
          live = [path \in BaseFiles \cup sessions |-> "old"]
    /\ uploadSessions \in BOOLEAN
    /\ hfConfirm = FALSE
    /\ staged = None
    /\ tmpFiles = {}
    /\ archives = {}
    /\ lastExtract = None
    /\ hfReply = None
    /\ bfOps = 0

NextBf ==
    \/ bf_standard
    \/ run_standard_backup_via_client
    \/ \E slim_mode \in BOOLEAN : bf_all(slim_mode)
    \/ bf_p
    \/ /\ bfOps < MaxBfOps
       /\ \E replied_msg \in BackupMessages :
            \E saved_msg \in IF replied_msg = None THEN {None, File(<<>>)} ELSE {None} :
               hf(replied_msg, saved_msg)
    \/ /\ bfOps < MaxBfOps
       /\ \E backup_msg \in IF staged # None THEN {None} ELSE BackupMessages :
            \E download_ok \in IF staged # None \/ backup_msg = None
                                THEN {TRUE} ELSE BOOLEAN :
               \E safety_ok \in BOOLEAN, copy_ok \in BOOLEAN :
                  hf_confirm(backup_msg, download_ok, safety_ok, copy_ok)

SpecBf == InitBf /\ [][NextBf]_vars

\* The restore on its own: `hf` and `hf confirm` in any order, on a program
\* directory that holds the base files.
InitRestore ==
    /\ ShiftIdle /\ DlIdle /\ BfIdle /\ CmIdle /\ AbIdle /\ RestIdle

NextRestore ==
    \/ \E replied_msg \in BackupMessages :
         \E saved_msg \in IF replied_msg = None THEN {None, File(<<>>)} ELSE {None} :
            hf(replied_msg, saved_msg)
    \/ \E backup_msg \in IF staged # None THEN {None} ELSE BackupMessages :
         \E download_ok \in IF staged # None \/ backup_msg = None
                             THEN {TRUE} ELSE BOOLEAN :
            \E safety_ok \in BOOLEAN, copy_ok \in BOOLEAN :
               hf_confirm(backup_msg, download_ok, safety_ok, copy_ok)

SpecRestore == InitRestore /\ [][NextRestore]_vars

\* User 1 is the creator of the chat; user 2 may be an admin as well.
InitClean ==
    /\ ShiftIdle /\ DlIdle /\ BfIdle /\ AbIdle /\ RestIdle
    /\ members = CmUsers
    /\ admins \in {{1}, {1, 2}}
    /\ cache = <<>>
    /\ restricted = {}
    /\ now = 0
    /\ cmLast = NoRun
    /\ cmOps = 0

\* The inputs a command does not read are not varied: the criterion of modes
\* 1 to 4 in mode 5, the directory listing when no entry is expired, the
\* FloodWaitErrors when nobody is kicked.
NextClean ==
    \/ \E mode \in Modes, only_search \in BOOLEAN, query_ok \in BOOLEAN :
         \E listing_ok \in IF \E m \in DOMAIN cache : now > cache[m].expire_time
                            THEN BOOLEAN ELSE {TRUE},
            matching \in IF mode = "5" THEN {{}} ELSE SUBSET CmUsers,
            floods \in IF only_search THEN {0} ELSE 0..MaxFloods,
            seen \in IF query_ok THEN {{}} ELSE SUBSET admins :
               process_clean_member(mode, only_search, listing_ok, matching,
                                    query_ok, seen, floods)
    \/ \E hours \in HourSteps : time_passes(hours)

SpecClean == InitClean /\ [][NextClean]_vars

\* The target user 7 is an admin of no chat, of the chat of the command, or
\* of another chat; the account can ban in chats 2 and 3 only, in the first
\* three chats, or in all of them.
InitAban ==
    /\ ShiftIdle /\ DlIdle /\ BfIdle /\ CmIdle /\ RestIdle
    /\ abAdmins \in {{}, {<<Here, 7>>}, {<<2, 7>>}}
    /\ abRights \in {{2, 3}, 1..3, AbChats}
    /\ requests = {}
    /\ abReply = None
    /\ abOps = 0

NextAban ==
    \E reply_sender \in ReplySenders, is_group \in BOOLEAN, known \in BOOLEAN :
      \E scan_found \in IF known THEN {TRUE} ELSE BOOLEAN :
        \/ \E args \in CommandArgs, admin_probe_ok \in BOOLEAN,
              rights_probe_ok \in BOOLEAN :
              \/ \E ban_success \in BOOLEAN, unban_success \in BOOLEAN :
                    kick_user(args, reply_sender, is_group, known, scan_found,
                              admin_probe_ok, rights_probe_ok, ban_success,
                              unban_success)
              \/ ban_user(args, reply_sender, is_group, known, scan_found,
                          admin_probe_ok, rights_probe_ok)
        \/ \E args \in CommandArgs, rights_probe_ok \in BOOLEAN :
              \/ unban_user(args, reply_sender, is_group, known, scan_found,
                            rights_probe_ok)
              \/ unmute_user(args, reply_sender, is_group, known, scan_found,
                             rights_probe_ok)
        \/ \E args \in MuteArgs, admin_probe_ok \in BOOLEAN,
              rights_probe_ok \in BOOLEAN :
              mute_user(args, reply_sender, is_group, known, scan_found,
                        admin_probe_ok, rights_probe_ok)
        \/ \E args \in CommandArgs, dialogs_ok \in BOOLEAN, fails \in FailChoices :
              \/ super_ban(args, reply_sender, is_group, known, scan_found,
                           dialogs_ok, fails)
              \/ super_unban(args, reply_sender, is_group, known, scan_found,
                             dialogs_ok, fails)

SpecAban == InitAban /\ [][NextAban]_vars

InitTargets ==
    /\ ShiftIdle /\ DlIdle /\ BfIdle /\ CmIdle /\ AbIdle /\ FnIdle /\ GmIdle
    /\ TgIdle /\ MoreIdle

NextTargets ==
    \/ \E parts \in UNION {[1..n -> TgWords] : n \in 1..MaxSetWords} : bf_set(parts)
    \/ \E target \in TgWords : bf_del(target)

SpecTargets == InitTargets /\ [][NextTargets]_vars

InitCron ==
    /\ ShiftIdle /\ DlIdle /\ BfIdle /\ CmIdle /\ AbIdle /\ TgIdle /\ GmIdle /\ MoreIdle
    /\ fnInput \in [kind : {"cron"}, now : Instants, expr : CronExprs]
    /\ fnOutput = None

NextCron == call_cron_matches

SpecCron == InitCron /\ [][NextCron]_vars

\* The program after a start: the configuration holds an expression or
\* none, and no job is registered yet.
InitCronTask ==
    /\ ShiftIdle /\ DlIdle /\ BfIdle /\ CmIdle /\ AbIdle
    /\ FnIdle /\ TgIdle /\ GmIdle /\ RfIdle /\ PbIdle
    /\ cron_expr \in {<<>>} \cup {fields \in CronExprs : cron_matches_parses(fields)}
    /\ jobs = 0
    /\ crLast = None
    /\ crOps = 0

NextCronTask ==
    \/ load_success
    \/ bf_cron_off
    \/ \E fields \in CronExprs : bf_cron(fields)

SpecCronTask == InitCronTask /\ [][NextCronTask]_vars

InitSafeBan ==
    /\ ShiftIdle /\ DlIdle /\ BfIdle /\ CmIdle /\ AbIdle /\ TgIdle /\ GmIdle /\ MoreIdle
    /\ fnInput \in SafeBanInputs
    /\ fnOutput = None

NextSafeBan == call_safe_ban_action

SpecSafeBan == InitSafeBan /\ [][NextSafeBan]_vars

\* The program after a start: nothing is cached yet.
InitRefresh ==
    /\ ShiftIdle /\ DlIdle /\ BfIdle /\ CmIdle /\ FnIdle /\ TgIdle /\ GmIdle
    /\ CrIdle /\ RfIdle /\ PbIdle
    /\ abAdmins = {}
    /\ abRights \in {{2, 3}, 1..3}
    /\ requests = {}
    /\ abReply = None
    /\ abOps = 0

NextRefresh ==
    \/ \E dialogs_ok \in BOOLEAN :
          \/ refresh_cache(dialogs_ok)
          \/ preload_cache(dialogs_ok)
          \/ cache_status(dialogs_ok)
    \/ \E chat_id \in 1..3 : rights_change(chat_id)
    \/ rf_time_passes

SpecRefresh == InitRefresh /\ [][NextRefresh]_vars

\* A call that has not started: no task, nothing found.
InitProbe ==
    /\ ShiftIdle /\ DlIdle /\ BfIdle /\ CmIdle /\ AbIdle /\ FnIdle /\ TgIdle
    /\ GmIdle /\ CrIdle /\ RfIdle
    /\ probes = [waiting |-> 0, participant |-> 0, scan |-> 0, done |-> 0]
    /\ found_user = NoUid
    /\ done_event = FALSE
    /\ hits = 0
    /\ resolver = "idle"
    /\ resolved = None

NextProbe ==
    \/ \E n \in 0..MaxGroups : resolve_user_across_groups_by_id(n)
    \/ acquire
    \/ \E raises \in BOOLEAN :
         \E users \in IF raises THEN {{}} ELSE LookupResults :
            \/ participant_returns(raises, users)
            \/ scan_returns(raises, users)
    \/ poll_cancel_gather

\* Every lookup returns or raises in the end, and the event loop runs every
\* task that can go on.
SpecProbe == InitProbe /\ [][NextProbe]_vars /\ WF_vars(NextProbe)

InitRoundTrip ==
    /\ ShiftIdle /\ DlIdle /\ CmIdle /\ AbIdle /\ RestIdle
    /\ \E present \in SUBSET TreeFiles : live \in [present -> Contents]
    /\ uploadSessions = FALSE
    /\ hfConfirm = FALSE
    /\ staged = None
    /\ tmpFiles = {}
    /\ archives = {}
    /\ lastExtract = None
    /\ hfReply = None
    /\ bfOps = 0

NextRoundTrip ==
    \/ write_backup_archive
    \/ extract_backup_archive

SpecRoundTrip == InitRoundTrip /\ [][NextRoundTrip]_vars

InitGemini ==
    /\ ShiftIdle /\ DlIdle /\ BfIdle /\ CmIdle /\ AbIdle /\ FnIdle /\ TgIdle /\ MoreIdle
    /\ api_key \in BOOLEAN
    /\ history = <<>>
    /\ context_enabled \in BOOLEAN
    /\ telegraph_enabled \in BOOLEAN
    /\ telegraph_limit \in LimitChoices
    /\ telegraph_posts = 0
    /\ calls = [i \in GmInvocations |-> NoCall]
    /\ gmLast = None
    /\ gmOps = 0

NextGemini ==
    \/ \E args \in {"", "key"} : handle_set_api_key(args)
    \/ \E is_on \in BOOLEAN : context_toggle(is_on)
    \/ context_clear
    \/ \E is_on \in BOOLEAN : telegraph_toggle(is_on)
    \/ \E limit \in LimitChoices \cup {-1} : telegraph_set_limit(limit)
    \/ \E i \in {j \in GmInvocations : \A k \in 1..(j - 1) : calls[k] # NoCall} :
          \E cmd \in GmRequests, prompt \in PromptTexts, media \in MediaChoices :
             gemini_request(i, cmd, prompt, media)
    \/ \E i \in GmInvocations, response \in {"raises", PyNone} \cup ReplyTexts :
          \E reply_len \in IF response \in ReplyTexts THEN ReplyLengths ELSE {10} :
          \E tokens \in IF response \in ReplyTexts /\ calls[i] # NoCall /\ is_audio(calls[i].cmd)
                         THEN TokenCounts ELSE {TokenLimit} :
          \E outcome \in IF response \in ReplyTexts /\ calls[i] # NoCall /\ is_audio(calls[i].cmd)
                          THEN (IF tokens > TokenLimit THEN {"count_fails", "sent"} ELSE TtsOutcomes)
                          ELSE {"sent"} :
          \E publish_ok \in IF response \in ReplyTexts /\ telegraph_enabled
                             THEN BOOLEAN ELSE {TRUE} :
             provider_returns(i, response, reply_len, tokens, outcome, publish_ok)
    \/ \E prompt \in PromptTexts, tokens \in TokenCounts, outcome \in TtsOutcomes :
          handle_tts(prompt, tokens, outcome)

SpecGemini == InitGemini /\ [][NextGemini]_vars

InitNormalize ==
    /\ ShiftIdle /\ DlIdle /\ BfIdle /\ CmIdle /\ AbIdle /\ TgIdle /\ GmIdle /\ MoreIdle
    /\ fnInput \in [kind : EntityKinds, id : SampleIds]
    /\ fnOutput = None

NextNormalize == call_normalize_chat_id

SpecNormalize == InitNormalize /\ [][NextNormalize]_vars

(***************************************************************************)
(* Claims about the relay                                                  *)
(***************************************************************************)
\* goal is reached from cur by following at most n source -> target_id links
RECURSIVE Reach(_, _, _)
Reach(cur, goal, n) ==
    \/ cur = goal
    \/ n > 0 /\ HasRule(cur) /\ Reach(rules[cur].target_id, goal, n - 1)

NoShortCycle ==
    \A s \in DOMAIN rules : ~Reach(rules[s].target_id, s, MaxHops - 1)

SetRejectsCycle ==
    \A source \in Peers, target \in Peers, options \in OptionChoices,
       noforwards \in BOOLEAN :
        (Reach(target, source, MaxHops - 1)
           /\ shift_func_set(source, target, options, noforwards))
        => (rules' = rules /\ reply'.kind \in {"circular", "bad_source"})

KeywordOccurs(keywords, text) ==
    \E kw \in keywords :
        \E i \in 0..(Len(text) - Len(kw)) :
            \A j \in 1..Len(kw) : lower_char(text[i + j]) = lower_char(kw[j])

TypeAccepted(options, tag) == options = {} \/ "all" \in options \/ tag \in options

RelayDecision(msg) ==
    LET src == msg.chat
        forwarded == /\ relay'.hops # <<>>
                     /\ relay'.hops[1].from = src
                     /\ relay'.hops[1].to = rules[src].target_id
    IN IF ~HasRule(src) THEN relay'.hops = <<>> /\ rules' = rules
       ELSE IF rules[src].paused THEN relay'.hops = <<>> /\ rules' = rules
       ELSE IF forwarded
       THEN /\ ~msg.noforwards
            /\ ~KeywordOccurs(rules[src].filters, msg.text)
            /\ relay'.message_type \in get_media_type(msg)
            /\ TypeAccepted(rules[src].options, relay'.message_type)
       ELSE /\ relay'.hops = <<>>
            /\ \/ msg.noforwards
               \/ KeywordOccurs(rules[src].filters, msg.text)
               \/ /\ relay'.message_type \in get_media_type(msg)
                  /\ ~TypeAccepted(rules[src].options, relay'.message_type)

\* C8: for a message arriving in a chat: without a rule nothing is forwarded;
\* with a paused rule nothing is forwarded and the rules are unchanged;
\* otherwise the listener issues the forward to the rule's target iff the
\* chat does not have forwarding disabled, no filter keyword occurs in the
\* text (case ignored) and the options are empty, contain "all" or contain
\* the type tag computed for the message.
C8_RelayDecision ==
    [][\A msg \in Messages : shift_channel_message(msg) => RelayDecision(msg)]_vars

\* A message was forwarded through a rule that has filter keywords and type
\* options: no keyword occurred in it and its type tag was accepted.
C8_Witness ==
    /\ relay.hops # <<>>
    /\ \E s \in DOMAIN rules :
          /\ relay.hops[1].from = s
          /\ rules[s].filters # {}
          /\ rules[s].options # {}

\* the keys at the 1-based positions that toks names
NamedKeys(toks, keys) ==
    {keys[int_of[toks[i]]] :
        i \in {j \in DOMAIN toks : /\ toks[j] \in DOMAIN int_of
                                   /\ int_of[toks[j]] \in 1..Len(keys)}}

DelExactly(toks) ==
    /\ DOMAIN rules' = DOMAIN rules \ NamedKeys(toks, all_shifts)
    /\ \A k \in DOMAIN rules' : rules'[k] = rules[k]
    /\ stats' = stats

\* C9: `shift del <indices>` deletes exactly the rules at the given 1-based
\* positions of the sorted key list computed at the start of the call, for
\* every index list (repeated and out-of-range entries included), and leaves
\* every other rule and every statistics record unchanged.
C9_DelExactPositions ==
    [][\A toks \in IndexLists : shift_func_del(toks) => DelExactly(toks)]_vars

(***************************************************************************)
(* Claims about the downloaders                                            *)
(***************************************************************************)
JobsInFlight(plugin) == {i \in Invocations : i[1] = plugin /\ pc[i] \in InFlight}

AtMostOneJob ==
    /\ \A plugin \in Plugins : Cardinality(JobsInFlight(plugin)) <= 1
    /\ \A i \in Invocations : pc[i] = "refused" => i \notin downloads

RefusedWhileBusy ==
    \A i \in Invocations :
        (pc[i] = "idle" /\ pc'[i] # "idle" /\ busy[i[1]])
        => (pc'[i] = "refused" /\ downloads' = downloads)

\* C2: in gdl and in ytdl, under any interleaving of invocations on the event
\* loop, at most one download job is in flight at a time; an invocation that
\* arrives while the plugin's flag is set is refused and starts no download.
C2_OneJobInFlight == []AtMostOneJob /\ [][RefusedWhileBusy]_vars

\* While a job of a plugin is downloading, a second invocation of the plugin
\* has been refused.
C2_Witness ==
    \E i \in Invocations, j \in Invocations :
        /\ i[1] = j[1]
        /\ pc[i] = "download"
        /\ pc[j] = "refused"

\* C3: every accepted job ends with the plugin's flag cleared, whatever the
\* outcome, an exception raised by creating the working directory or by the
\* first status edit included: the flag is set only while a job of the plugin
\* is in flight, so a later invocation is accepted again.
C3_FlagClearedAfterJob ==
    \A plugin \in Plugins : busy[plugin] => JobsInFlight(plugin) # {}

(***************************************************************************)
(* Claims about backup and restore                                         *)
(***************************************************************************)
\* C4: `hf confirm` overwrites files of the live installation only if the
\* restore-confirmation record written by a preceding `hf` exists (a record
\* that does not exist is a fortiori not an unexpired one), and the record is
\* gone once the confirmed phase has used it.
C4_RestoreNeedsConfirmRecord ==
    [][(bfOps' # bfOps /\ hfReply'.kind = "done" /\ live' # live)
       => (hfConfirm /\ ~hfConfirm')]_vars

\* where a member lands when the file system resolves its name from dir
RECURSIVE Walk(_, _)
Walk(dir, parts) ==
    IF parts = <<>> THEN dir
    ELSE IF Head(parts) = "." THEN Walk(dir, Tail(parts))
    ELSE IF Head(parts) = ".."
    THEN Walk(IF dir = <<>> THEN dir ELSE SubSeq(dir, 1, Len(dir) - 1), Tail(parts))
    ELSE Walk(Append(dir, Head(parts)), Tail(parts))

\* absolute, or resolving outside the extraction directory, or landing below
\* a top-level entry other than plugins, data, pagermaid_backup
Offending(name) ==
    \/ name.abs
    \/ LET at == Walk(ExtractDir, name.parts)
       IN \/ ~IsPrefix(ExtractDir, at)
          \/ Len(at) = Len(ExtractDir)
          \/ at[Len(ExtractDir) + 1] \notin {"plugins", "data", "pagermaid_backup"}

HasOffending(ar) == \E i \in DOMAIN ar : Offending(ar[i])

NothingExtracted ==
    (lastExtract # None /\ HasOffending(lastExtract.archive))
    => (~lastExtract.ok /\ lastExtract.written = {}
        /\ hfReply.kind = "extract_failed")

LiveUntouched ==
    (lastExtract' # None /\ HasOffending(lastExtract'.archive)) => live' = live

\* C5: when any member of an archive is absolute, resolves outside the
\* extraction directory or has a top-level directory (of the path it resolves
\* to) outside {plugins, data, pagermaid_backup}, un_tar_gz reports failure
\* and no member is written, the valid members that precede the offending
\* one included; the restore stops there.
C5_OffendingArchiveWritesNothing == []NothingExtracted /\ [][LiveUntouched]_vars

\* An archive whose first member is valid and whose second is not has been
\* refused.
C5_Witness ==
    /\ lastExtract # None
    /\ Len(lastExtract.archive) = 2
    /\ ~Offending(lastExtract.archive[1])
    /\ Offending(lastExtract.archive[2])
    /\ ~lastExtract.ok

\* C6: no archive that a backup path produces (bf, the cron backup, bf all,
\* bf p, the pre-restore backup of hf confirm) holds a *.session or
\* *.session-journal file, unless upload_sessions is set and the archive is
\* the separate sessions archive.
C6_NoSessionFileInArchives ==
    \A a \in archives :
        (\E m \in a.members : is_session_file(m))
        => (uploadSessions /\ a.kind = "sessions")

\* the live path an extracted file corresponds to: below pagermaid_backup/
\* in the rooted layout, as it is in the legacy layout
LivePath(f) == IF f[1] = "pagermaid_backup" THEN Strip(f, 1) ELSE f

\* C7: a completed `hf confirm` creates or overwrites no *.session or
\* *.session-journal file of the live installation, and copies every other
\* extracted file to its corresponding live path.
C7_RestoreCopiesAllButSessions ==
    [][(bfOps' # bfOps /\ hfReply'.kind = "done")
       => /\ \A f \in DOMAIN live' :
                is_session_file(f) => (f \in DOMAIN live /\ live'[f] = live[f])
          /\ \A f \in lastExtract'.written :
                ~is_session_file(f)
                => (LivePath(f) \in DOMAIN live' /\ live'[LivePath(f)] = "new")]_vars

RetryAtMostOnce ==
    \A i \in DOMAIN relay.hops :
        LET hop == relay.hops[i] IN
        /\ hop.tries <= 2
        /\ hop.answer \in {"flood_ok", "flood_fail"} <=> hop.tries = 2
        /\ hop.answer \in {"blocked", "error"} => (hop.tries = 1 /\ ~hop.ok)
        /\ hop.answer = "flood_fail" => ~hop.ok
        /\ (hop.answer # "ok") => i = Len(relay.hops)

\* a listener call that issued a forward ends normally: it goes on to count
\* the message, whatever the forwards answered
FailureSwallowed ==
    (shiftOps' = shiftOps + 1 /\ relay'.hops # <<>>)
        => /\ stats' = update_stats(relay'.hops[1].from, relay'.message_type)
           /\ reply' = None

\* the archive of the live data and plugins trees as they are before the step
SafetyBackup == Produced("pre_restore", create_tar_gz({"data", "plugins"}, {}, {}, FALSE))

\* C30: in `hf confirm` no live file is overwritten until the pre-restore
\* safety backup of the current data and plugins trees has been created and
\* sent to the saved-messages chat: a step that changes the live files has
\* produced that archive.
C30_SafetyBackupBeforeOverwrite == [][live' # live => SafetyBackup \in archives']_vars

\* C17: on a rate-limit error the relay sleeps and retries the forward once,
\* and does not retry again when the retry fails; a blocked or write-forbidden
\* target is not retried; in every case the failure stays inside the
\* listener call, which ends normally.
C17_OneRetryOnRateLimitOnly == []RetryAtMostOnce /\ [][FailureSwallowed]_vars

\* A forward was rate-limited, retried once, and the retry failed; the message
\* was counted all the same.
C17_Witness ==
    /\ relay.hops # <<>>
    /\ relay.hops[Len(relay.hops)].answer = "flood_fail"
    /\ relay.hops[Len(relay.hops)].tries = 2
    /\ relay.hops[1].from \in DOMAIN stats

HopsBounded ==
    /\ Len(relay.hops) <= MaxDepth + 1
    /\ \A i \in DOMAIN relay.hops : relay.hops[i].depth = i - 1

\* C19: for one incoming message and any stored rules, cycles longer than the
\* window of the cycle check included, the relay issues the first forward
\* and at most MaxDepth (5) chained hops after it, then stops.
C19_AtMostFiveChainedHops == HopsBounded

\* The rules form a cycle of MaxHops + 1 hops, and a message that arrived near
\* the end of the chain went round through the closing rule until the depth
\* limit stopped it.
C19_Witness ==
    /\ HasRule(ChainChat(MaxHops + 1))
    /\ rules[ChainChat(MaxHops + 1)].target_id = ChainChat(1)
    /\ Len(relay.hops) = MaxDepth + 1
    /\ relay.hops[1].from = ChainChat(MaxHops - 1)
    /\ relay.hops[MaxDepth + 1].to = ChainChat(MaxDepth - 1)

FilterAtPosition ==
    \A toks \in IndexLists, action \in FilterActions, keywords \in SUBSET Keywords :
        (/\ Len(toks) = 1
         /\ toks[1] \in DOMAIN int_of
         /\ int_of[toks[1]] \in 1..Len(all_shifts)
         /\ shift_func_filter(toks, action, keywords))
        => LET key == all_shifts[int_of[toks[1]]] IN
           /\ (action = "list" /\ keywords = {})
                 => /\ reply'.kind = "filter_list"
                    /\ reply'.filters = rules[key].filters
                    /\ rules' = rules
           /\ (action = "add" /\ keywords # {})
                 => rules' = [rules EXCEPT ![key].filters = @ \cup keywords]
           /\ (action = "del" /\ keywords # {})
                 => rules' = [rules EXCEPT ![key].filters = @ \ keywords]

\* C29: `shift filter <index> list` with a valid position and no keywords
\* shows the keywords of the rule at that position and leaves the rule as it
\* is; add and del with keywords change only that rule's keyword set, by set
\* union and set difference.
C29_FilterListAddDel == [][FilterAtPosition]_vars

\* C28: normalization maps a channel / supergroup entity with positive id n
\* to -1000000000000 - n, a basic-group entity with positive id n to -n, and
\* leaves a user id unchanged; an id already in the signed convention (a
\* negative group or channel id, a positive user id) comes back unchanged.
C28_NormalizeChatId ==
    fnOutput # None =>
        LET n == fnInput.id IN
        /\ (fnInput.kind = "Channel" /\ IsPositive(n))
              => fnOutput = [neg |-> TRUE, hi |-> n.hi + 1000000, lo |-> n.lo]
        /\ (fnInput.kind = "Chat" /\ IsPositive(n))
              => fnOutput = [neg |-> TRUE, hi |-> n.hi, lo |-> n.lo]
        /\ fnInput.kind = "User" => fnOutput = n
        /\ fnInput.kind = "id" => fnOutput = n

\* the list has no repeated id
NoDuplicates(ids) == \A i \in DOMAIN ids, j \in DOMAIN ids : ids[i] = ids[j] => i = j

\* position of the first occurrence of x in the words
FirstAt(words, x) == CHOOSE i \in DOMAIN words : words[i] = x /\ \A j \in 1..(i - 1) : words[j] # x

\* an accepted `bf set` keeps the list as a prefix and appends the new ids,
\* each once, in the order of their first occurrence in the command
SetKeepsInsertionOrder ==
    (tgLast.kind = "bf" /\ tgLast.op = "set" /\ tgLast.stored)
    => LET old == tgLast.before
           new == target_chat_ids
           added == SubSeq(new, Len(old) + 1, Len(new))
       IN /\ IsPrefix(old, new)
          /\ Range(added) = Range(tgLast.words) \ Range(old)
          /\ \A i \in DOMAIN added, j \in DOMAIN added :
                i < j => FirstAt(tgLast.words, added[i]) < FirstAt(tgLast.words, added[j])

\* `bf del <id>` removes that id and nothing else, `bf del all` everything
DelRemovesOnlyThat ==
    (tgLast.kind = "bf" /\ tgLast.op = "del")
    => IF tgLast.words[1] = "all" THEN target_chat_ids = <<>>
       ELSE target_chat_ids = SelectSeq(tgLast.before, LAMBDA i : i # tgLast.words[1])

\* C26: after any sequence of `bf set` / `bf del` the stored destination list
\* has no duplicates and keeps first-insertion order: a set appends the ids
\* that are new, a del removes only the id named, `del all` empties the list.
C26_TargetsUniqueInInsertionOrder ==
    /\ NoDuplicates(target_chat_ids)
    /\ SetKeepsInsertionOrder
    /\ DelRemovesOnlyThat

\* `bf set 1 2` then `bf set 2 3` has stored 1, 2, 3.
C26_Witness ==
    /\ tgLast.kind = "bf" /\ tgLast.op = "set"
    /\ tgLast.words = <<"2", "3">>
    /\ tgLast.before = <<"1", "2">>
    /\ target_chat_ids = <<"1", "2", "3">>

\* the expression has five fields and each of them parses
WellFormed(fields) == Len(fields) = 5 /\ \A i \in 1..5 : fields[i] # Bad

\* the field is not "*"
Restricted(field) == field # Star

\* the weekday of an instant counted as cron does: 0 = Sunday, 1 = Monday
SundayZero(weekday) == IF weekday = 6 THEN 0 ELSE weekday + 1

\* minute, hour and month lie in the sets of their fields
TimeInSets(t, fields) ==
    /\ t.minute \in parse_cron_field(fields[1], 0, 59)
    /\ t.hour \in parse_cron_field(fields[2], 0, 23)
    /\ t.month \in parse_cron_field(fields[4], 1, 12)

DomMatch(t, fields) == t.day \in parse_cron_field(fields[3], 1, 31)
DowMatch(t, fields) == SundayZero(t.weekday) \in parse_cron_field(fields[5], 0, 6)

\* C24: for an instant t and a 5-field expression in which at most one of
\* day-of-month and day-of-week is restricted, the matcher is true iff t's
\* minute, hour and month lie in their fields' sets and the restricted day
\* field, if any, contains t's day (0 = Sunday); `*/5 * * * *` matches iff
\* minute % 5 = 0, `0 2 * * 1-5` matches 02:00 on Monday to Friday whatever
\* the day of month, `10 0 1 * *` matches only 00:10 on the 1st.
C24_CronMatcher ==
    (fnOutput # None /\ fnInput.kind = "cron")
    => LET t == fnInput.now
           e == fnInput.expr
       IN /\ (WellFormed(e) /\ ~(Restricted(e[3]) /\ Restricted(e[5])))
                => (fnOutput.value <=>
                      /\ TimeInSets(t, e)
                      /\ Restricted(e[3]) => DomMatch(t, e)
                      /\ Restricted(e[5]) => DowMatch(t, e))
          /\ e = Every5Minutes => (fnOutput.value <=> t.minute % 5 = 0)
          /\ e = Weekdays2am
                => (fnOutput.value <=> (t.minute = 0 /\ t.hour = 2 /\ t.weekday \in 0..4))
          /\ e = FirstOfMonth
                => (fnOutput.value <=> (t.minute = 10 /\ t.hour = 0 /\ t.day = 1))

\* `0 2 * * 1-5` has matched 02:00 on a Tuesday that is the 15th.
C24_Witness ==
    /\ fnInput.kind = "cron" /\ fnInput.expr = Weekdays2am
    /\ fnInput.now.weekday = 1 /\ fnInput.now.day = 15
    /\ fnOutput = Returned(TRUE)

\* C25: the day-of-month match and the day-of-week match are combined with
\* OR whenever either of the two fields is non-wildcard, and with AND only
\* when both are wildcards.
C25_OrWhenEitherRestricted ==
    (fnOutput # None /\ fnInput.kind = "cron" /\ WellFormed(fnInput.expr))
    => LET t == fnInput.now
           e == fnInput.expr
       IN fnOutput.value <=>
            /\ TimeInSets(t, e)
            /\ IF Restricted(e[3]) \/ Restricted(e[5])
               THEN DomMatch(t, e) \/ DowMatch(t, e)
               ELSE DomMatch(t, e) /\ DowMatch(t, e)

\* the field allows every value of its range, as "*" does
AllowsAll(field, min_v, max_v) == parse_cron_field(field, min_v, max_v) = min_v..max_v

\* C25, amended: the two day matches are combined with OR when both fields
\* leave out some value of their range, and with AND when at least one of
\* them allows every value, as "*" does.
C25_OrWhenBothRestricted ==
    (fnOutput # None /\ fnInput.kind = "cron" /\ WellFormed(fnInput.expr))
    => LET t == fnInput.now
           e == fnInput.expr
       IN fnOutput.value <=>
            /\ TimeInSets(t, e)
            /\ IF ~AllowsAll(e[3], 1, 31) /\ ~AllowsAll(e[5], 0, 6)
               THEN DomMatch(t, e) \/ DowMatch(t, e)
               ELSE DomMatch(t, e) /\ DowMatch(t, e)

\* `0 0 1,15 * 0` has matched midnight of a Sunday that is the 2nd.
C25_Witness ==
    /\ fnInput.kind = "cron"
    /\ fnInput.expr[3] = List(<<Value(1), Value(15)>>)
    /\ fnInput.expr[5] = List(<<Value(0)>>)
    /\ fnInput.now.day = 2 /\ fnInput.now.weekday = 6
    /\ fnOutput = Returned(TRUE)

\* the file of the extraction directory that stands for the live file f
Extracted(f) == <<"pagermaid_backup">> \o f

\* C27: for any contents of the data and plugins trees, a standard backup
\* (sessions excluded) extracted with the restore extractor succeeds and
\* reproduces every original file at its relative path with the same
\* contents, except that no *.session / *.session-journal file appears.
C27_BackupRoundTrip ==
    (fnOutput # None /\ fnOutput.kind = "extracted")
    => /\ fnOutput.ok
       /\ \A f \in DOMAIN live :
             IF is_session_file(f) THEN Extracted(f) \notin DOMAIN fnOutput.files
             ELSE /\ Extracted(f) \in DOMAIN fnOutput.files
                  /\ fnOutput.files[Extracted(f)] = live[f]

\* C27, amended: the extraction succeeds and holds exactly the original
\* files that are neither session files nor below a __pycache__ directory,
\* each at its relative path with the same contents.
C27_RoundTripButSessionsAndPycache ==
    (fnOutput # None /\ fnOutput.kind = "extracted")
    => /\ fnOutput.ok
       /\ DOMAIN fnOutput.files =
             {Extracted(f) : f \in {g \in DOMAIN live :
                                      /\ ~is_session_file(g)
                                      /\ "__pycache__" \notin dirnames(g)}}
       /\ \A f \in DOMAIN live :
             Extracted(f) \in DOMAIN fnOutput.files
             => fnOutput.files[Extracted(f)] = live[f]

\* A tree with a session file and two other files of different contents has
\* been packed and extracted.
C27_Witness ==
    /\ fnOutput # None /\ fnOutput.kind = "extracted"
    /\ <<"data", "pagermaid.session">> \in DOMAIN live
    /\ <<"data", "a.json">> \in DOMAIN live
    /\ <<"plugins", "p.py">> \in DOMAIN live
    /\ live[<<"data", "a.json">>] # live[<<"plugins", "p.py">>]
    /\ fnOutput.files[Extracted(<<"data", "a.json">>)] = live[<<"data", "a.json">>]

\* what a user turn and a model turn of the stored history are
IsUserTurn(x) == x \in (PromptTexts \ {""}) \cup {MediaPart}
IsModelTurn(x) == x \in ReplyTexts

\* the history is a flat list of even length, user turn then model turn
Alternating ==
    /\ Len(history) % 2 = 0
    /\ \A k \in DOMAIN history :
          IF k % 2 = 1 THEN IsUserTurn(history[k]) ELSE IsModelTurn(history[k])

\* the history changes only by being cleared or by one pair appended by a
\* chat request that got its reply while the memory was enabled
HistoryStep ==
    history' # history
    => \/ history' = <<>> /\ gmLast'.cmd = "context clear"
       \/ /\ SubSeq(history', 1, Len(history)) = history
          /\ Len(history') = Len(history) + 2
          /\ context_enabled
          /\ gmLast'.outcome = "replied"
          /\ ~use_search(gmLast'.cmd)

\* C21: after any sequence and interleaving of chat requests, search
\* requests, failed provider calls, `context clear` and `context on|off`
\* the stored history is a flat list of even length that alternates user
\* turn, model turn; a pair is appended only after a successful chat reply
\* made while the memory is enabled; search requests and failed calls leave
\* the history unchanged.
C21_HistoryAlternates == []Alternating /\ [][HistoryStep]_vars

\* a _send_response has run with publishing enabled and a positive limit
SentWithLimit ==
    /\ gmLast.kind = "gemini" /\ gmLast.sent.delivery # "none"
    /\ gmLast.enabled /\ gmLast.limit > 0

\* C22: with long-form publishing enabled and a positive character limit,
\* an assembled reply longer than the limit is delivered as a link to a
\* published page (an error when the page cannot be created) and not
\* inline; a reply not longer than the limit and within the platform's
\* message ceiling is delivered inline and no page is published.
C22_LongRepliesArePublished ==
    SentWithLimit
    => /\ gmLast.final_len > gmLast.limit
            => /\ gmLast.sent.publish_tried
               /\ gmLast.sent.delivery = IF gmLast.sent.published THEN "link" ELSE "error"
       /\ (gmLast.final_len <= gmLast.limit /\ gmLast.final_len <= MessageCeiling)
            => /\ gmLast.sent.delivery = "inline"
               /\ ~gmLast.sent.publish_tried
               /\ ~gmLast.sent.published

\* A reply over the limit of 50 characters and under the platform's ceiling
\* has been delivered as a link.
C22_Witness ==
    /\ SentWithLimit
    /\ gmLast.limit = 50 /\ gmLast.final_len > 50 /\ gmLast.final_len <= MessageCeiling
    /\ gmLast.sent.delivery = "link"

\* the reply went the text way: inline, as a link, or the error of a text
\* that could not be sent
DeliveredAsText ==
    \/ gmLast.sent.delivery \in {"inline", "link"}
    \/ /\ gmLast.sent.delivery = "error"
       /\ gmLast.sent.publish_tried \/ gmLast.final_len > MessageCeiling

\* C23: a text whose provider-reported token count exceeds 1,500 is never
\* passed to the speech-synthesis call, on any path (tts, _audio,
\* search_audio); on the combined audio-or-text paths the reply is then
\* delivered as text and no voice note is sent.
C23_NoSynthesisOverTokenLimit ==
    (gmLast.kind = "gemini" /\ gmLast.tts.counted /\ gmLast.tokens > TokenLimit)
    => /\ ~gmLast.tts.synth
       /\ ~gmLast.tts.voice
       /\ is_audio(gmLast.cmd) => DeliveredAsText

\* An _audio reply of 1,501 tokens has been delivered inline.
C23_Witness ==
    /\ gmLast.kind = "gemini" /\ gmLast.cmd = "_audio"
    /\ gmLast.tts.counted /\ gmLast.tokens = TokenLimit + 1
    /\ gmLast.sent.delivery = "inline"

\* C20: an exception raised while a command is handled (a bad index list
\* among them) is caught inside the command's handler and rendered as a chat
\* message; none leaves the handler.
C20_NoExceptionLeavesHandler == reply.kind # "raised"

(***************************************************************************)
(* Claims about clean_member                                               *)
(***************************************************************************)
\* C10: in every mode, on the fresh-scan path and on the cache path, and
\* whether the admin query succeeds or fails, no restriction is issued
\* against a user who is an admin or the creator of the chat.
C10_NoAdminRestricted == \A r \in restricted : ~r.admin

\* a clean_member command runs in this step
CmCommand == cmOps' = cmOps + 1

\* the entry of the mode as it is before the command: there and unexpired
ValidEntry(mode) == mode \in DOMAIN cache /\ now <= cache[mode].expire_time
StaleEntry(mode) == mode \in DOMAIN cache /\ cache[mode].expire_time < now

CacheRead ==
    CmCommand =>
        LET mode == cmLast'.mode IN
        /\ StaleEntry(mode) =>
              /\ cmLast'.cache_data = None
              /\ ~(mode \in DOMAIN cache' /\ cache'[mode] = cache[mode])
        /\ cmLast'.cache_data # None =>
              /\ ValidEntry(mode)
              /\ cmLast'.cache_data = cache[mode]
        /\ (~cmLast'.enumerated /\ cmLast'.kicked # {}) =>
              /\ ValidEntry(mode)
              /\ cmLast'.kicked = cache[mode].users

\* C11: the cache reader answers "absent" for an entry whose expire_time is
\* earlier than the current time and the entry's file is gone after that
\* read; it answers with an entry only while the entry is unexpired, so no
\* search or clean acts on an expired entry.
C11_ExpiredEntryAbsentAndDeleted == [][CacheRead]_vars

\* load_cache has just met an expired entry and removed its file.
C11_Witness == cmLast.dropped # {} /\ cmLast.cache_data = None

RestrictedIds(set) == {r.uid : r \in set}

CachedOrScanned ==
    CmCommand =>
        LET run == cmLast' IN
        /\ (ValidEntry(run.mode) /\ run.only_search) =>
              /\ ~run.enumerated
              /\ run.kicked = {}
              /\ restricted' = restricted
              /\ members' = members
        /\ (ValidEntry(run.mode) /\ ~run.only_search) =>
              /\ ~run.enumerated
              /\ run.kicked = cache[run.mode].users
              /\ RestrictedIds(restricted') =
                    RestrictedIds(restricted) \cup cache[run.mode].users
        /\ run.enumerated <=> ~ValidEntry(run.mode)

\* C12: with a valid cache entry for the mode, a search reports the cached
\* result without enumerating the members and without removing anyone, and a
\* clean issues its kicks for exactly the cached users without enumerating;
\* a command enumerates the members only when there is no valid entry.
C12_ValidCacheMeansNoEnumeration == [][CachedOrScanned]_vars

\* A clean has just run from a valid cache entry that names someone.
C12_Witness ==
    /\ cmLast.cache_data # None
    /\ ~cmLast.only_search
    /\ ~cmLast.enumerated
    /\ cmLast.kicked # {}

\* C18: on a rate-limit error the kick sleeps and retries the two-step kick
\* exactly once, so the two-step kick is started at most 2 times for a member.
C18_AtMostTwoKickAttempts == cmLast.attempts <= 2

(***************************************************************************)
(* Claims about aban                                                       *)
(***************************************************************************)
\* C13: kick, ban, mute and sb issue no restriction in a chat where the
\* target is an admin, and no moderation command issues a request in a chat
\* where the account lacks the right to ban.
C13_NoAdminOrRightlessRestriction ==
    \A r \in requests :
        /\ (r.restrict /\ r.command \in {"kick", "ban", "mute", "sb"})
              => <<r.chat, r.uid>> \notin abAdmins
        /\ r.chat \in abRights

\* an optional sign followed by digits
SignedInteger(tok) ==
    /\ tok # <<>>
    /\ \/ \A i \in DOMAIN tok : tok[i] \in DOMAIN digit_value
       \/ /\ tok[1] = "-"
          /\ Len(tok) > 1
          /\ \A i \in 2..Len(tok) : tok[i] \in DOMAIN digit_value

\* the user an argument names
ArgumentTarget(tok) ==
    IF tok[1] = "@" THEN (IF tok \in DOMAIN Handles THEN Handles[tok] ELSE NoUid)
    ELSE int(tok)

TargetFromArgumentOnly ==
    abReply.kind # "none" =>
        LET args == abReply.args IN
        /\ (args # <<>> /\ args[1][1] # "@" /\ ~SignedInteger(args[1]))
              => /\ requests = {}
                 /\ abReply.kind \in {"no_user", "not_group"}
        /\ (args # <<>> /\ requests # {})
              => /\ args[1][1] = "@" \/ SignedInteger(args[1])
                 /\ \A r \in requests : r.uid = ArgumentTarget(args[1])
        /\ args = <<>> => \A r \in requests : r.uid = abReply.reply_sender

\* C14: with a target argument the target comes from the argument only; an
\* argument that is neither an "@" handle nor an integer id is refused and no
\* request is issued, also when the command replies to a message; the sender
\* of the replied-to message is the target only when there is no argument.
C14_TargetFromArgumentOnly == TargetFromArgumentOnly

\* A command with a bare name as its argument, given as a reply in a group,
\* was refused.
C14_Witness ==
    /\ abReply.kind = "no_user"
    /\ abReply.args = <<<<"b", "o", "b">>>>
    /\ abReply.reply_sender = 8
    /\ requests = {}

\* C15: for N managed groups of which M fail, the report of sb / unsb says
\* success = N - M and failed = M, and the failing titles it lists are the
\* first ones, at most three.
C15_BatchReport ==
    abReply.kind = "batch" =>
        LET failing == SelectSeq(abReply.groups, LAMBDA g : g \in abReply.fails)
            shown == IF Len(failing) < TitleLimit THEN Len(failing) ELSE TitleLimit
        IN /\ abReply.success = Len(abReply.groups) - Len(failing)
           /\ abReply.failed = Len(failing)
           /\ abReply.listed = SubSeq(failing, 1, shown)

\* C16: in `mute <user> [minutes] [reason]` a numeric duration is clamped
\* into 1..1440, and a duration that is not a number is refused as an invalid
\* argument with no request issued.
C16_MuteDuration ==
    (abReply.kind # "none" /\ abReply.command = "mute" /\ Len(abReply.args) > 1) =>
        LET tok == abReply.args[2] IN
        IF \A i \in DOMAIN tok : tok[i] \in DOMAIN digit_value
        THEN /\ abReply.minutes \in MinMinutes..MaxMinutes
             /\ int(tok) \in MinMinutes..MaxMinutes => abReply.minutes = int(tok)
             /\ int(tok) < MinMinutes => abReply.minutes = MinMinutes
             /\ int(tok) > MaxMinutes => abReply.minutes = MaxMinutes
             /\ \A r \in requests : r.minutes = abReply.minutes
        ELSE /\ requests = {}
             /\ abReply.kind # "done"

(***************************************************************************)
(* The restore's temporary files                                           *)
(***************************************************************************)
\* what `hf confirm` answers
HfConfirmKinds == {"not_found", "extract_failed", "failed", "done"}

C35_RestoresDisplayedCandidate ==
    [][(/\ bfOps' # bfOps
        /\ hfReply.kind = "warning"
        /\ hfReply'.kind \in HfConfirmKinds
        /\ lastExtract' # None
        /\ staged # None
        /\ staged # hfReply.candidate)
       => lastExtract'.archive # staged.members]_vars

(***************************************************************************)
(* The scheduled backup's job                                              *)
(***************************************************************************)
\* C36: after every `bf cron <expr>` that stores its expression, every
\* `bf cron off` and every run of the load hook, the job bf_cron_task is
\* registered exactly when the configuration holds a cron expression, and
\* it is never registered twice.
C36_JobIffExpression ==
    /\ [](jobs <= 1)
    /\ [][(crOps' # crOps /\ crLast'.kind \in {"set", "off", "hook"})
          => ((jobs' = 1) <=> (cron_expr' # <<>>))]_vars

\* the hook has run while the job was already registered
C36_Witness ==
    /\ crOps = MaxCrOps
    /\ crLast.kind = "hook"
    /\ cron_expr # <<>>
    /\ jobs = 1

(***************************************************************************)
(* Claims about safe_ban_action                                            *)
(***************************************************************************)
\* the methods a call goes through when it tries them in order until one
\* applies the rights
InOrderUntilSuccess(attempts, applied) ==
    attempts = [k \in 1..(IF applied = 0 THEN 4 ELSE applied) |-> k]

\* C33: safe_ban_action attempts its four methods in order (direct id,
\* resolved entity, channel identity, built input peer), each later one
\* whenever none before it succeeded, also when method 2 finds no entity
\* without raising; it stops once one succeeds and returns True exactly
\* when one succeeded.
C33_FourMethodsInOrder ==
    fnOutput # None
    => /\ InOrderUntilSuccess(fnOutput.attempts, fnOutput.applied)
       /\ fnOutput.value <=> (fnOutput.applied # 0)

(***************************************************************************)
(* Claims about kick                                                       *)
(***************************************************************************)
\* C40: whenever `kick` reports completion, the ban step succeeded and the
\* unban step after it succeeded too: the target is not left banned after
\* a reported kick, and completion is not reported when the ban failed.
C40_KickReportsOnlySuccess ==
    (abReply.kind = "done" /\ abReply.command = "kick")
    => (abReply.ban_success /\ abReply.unban_success)

(***************************************************************************)
(* Claims about the managed-groups cache                                   *)
(***************************************************************************)
\* C32: after a `refresh` or `preload` has completed, the managed-groups
\* list the later sb / unsb / cache commands use is the result of a probe
\* of the joined chats made during that command, also when a cached list
\* younger than its one-hour ttl existed when the command was given.
C32_RefreshProbesAgain ==
    [][(rfOps' # rfOps /\ rfLast'.kind \in {"refresh", "preload"})
       => (rfLast'.probed /\ managed'.value = rfLast'.groups)]_vars

(***************************************************************************)
(* Claims about cross-group resolution                                     *)
(***************************************************************************)
AtMostEightInFlight == in_flight <= PARALLEL_LIMIT

\* a probe that gets its slot once the event is set starts no lookup
NoLookupAfterHit ==
    (done_event /\ probes'.waiting < probes.waiting)
    => (probes'.participant <= probes.participant /\ probes'.scan <= probes.scan)

ReturnsTheRequestedUser ==
    resolved # None
    => resolved.value = (IF hits > 0 THEN RequestedUid ELSE NoUid)

\* C34: in cross-group resolution over any number of managed groups at most
\* 8 probes are in flight at any time, a probe that acquires a slot after a
\* hit was recorded starts no lookup, and the call always terminates: it
\* returns a user whose id is the requested id if some probe found one, and
\* nothing otherwise.
C34_BoundedProbesFirstHitWins ==
    /\ [](AtMostEightInFlight /\ ReturnsTheRequestedUser)
    /\ [][NoLookupAfterHit]_vars
    /\ <>(resolver = "returned")

\* a call over more groups than slots in which a probe found the user while
\* other probes were still waiting for a slot
C34_Witness ==
    /\ resolver = "polling"
    /\ done_event
    /\ hits > 0
    /\ found_user = RequestedUid
    /\ in_flight = PARALLEL_LIMIT - 1
    /\ probes.waiting > 0

(***************************************************************************)
(* Claims about the relay's statistics and chained hops                    *)
(***************************************************************************)
RECURSIVE SumOver(_, _)
SumOver(record, keys) ==
    IF keys = {} THEN 0
    ELSE LET k == CHOOSE x \in keys : TRUE
         IN record[k] + SumOver(record, keys \ {k})

TotalIsSumOfTypes ==
    \A s \in DOMAIN stats : stats[s].total = SumOver(stats[s], AVAILABLE_OPTIONS)

CountedOnlyWhenForwarded ==
    stats' # stats => (relay'.hops # <<>> /\ relay'.hops[1].ok)

\* C37: a statistics record is incremented only for a message whose forward
\* to the rule's target succeeded, at the first attempt or at the retry
\* after a rate limit; a forward that fails leaves every record unchanged;
\* in every record the total is the sum of the per-type counters.
C37_StatsCountForwardedMessages ==
    []TotalIsSumOfTypes /\ [][CountedOnlyWhenForwarded]_vars

ChainedHopPassesRule(msg) ==
    \A i \in 2..Len(relay'.hops) :
        LET x == relay'.hops[i].from
        IN /\ ~rules[x].paused
           /\ ~KeywordOccurs(rules[x].filters, msg.text)
           /\ TypeAccepted(rules[x].options, relay'.message_type)

\* C38: on a chained hop through a rule X -> Y the message goes on to Y only
\* if it would have been relayed had it arrived in X: X is not paused, no
\* filter keyword of X occurs in the message and X's type options accept
\* the message type; so no message matching a rule's keyword filter
\* reaches that rule's target.
C38_ChainedHopsApplyTheRule ==
    [][\A msg \in Messages :
          shift_channel_message(msg) => ChainedHopPassesRule(msg)]_vars


RejectedChangesNothing ==
    \A i \in Invocations :
        (pc[i] = "idle" /\ pc'[i] = "refused")
        => /\ busy[i[1]] /\ busy' = busy
           /\ workdir' = workdir
           /\ downloads' = downloads
           /\ \A j \in Invocations \ {i} : pc'[j] = pc[j]

\* C39: a gdl or ytdl invocation that is rejected because a job of the plugin
\* is in flight changes nothing: the busy flag stays set, and the working
\* directory and the downloaded files of the job in flight, like the position
\* of every other invocation, are what they were before.
C39_RejectedInvocationChangesNothing == [][RejectedChangesNothing]_vars

\* In each plugin an invocation has been refused while the job in flight holds
\* its working directory and its downloaded files.
C39_Witness ==
    \A plugin \in Plugins :
        \E i \in Invocations, j \in Invocations :
            /\ i[1] = plugin /\ j[1] = plugin
            /\ pc[i] \in {"download", "upload"}
            /\ i \in workdir /\ i \in downloads
            /\ pc[j] = "refused"
            /\ busy[plugin]

====
